---------------------------- MODULE Spec2Model ----------------------------
(***************************************************************************)
(* Model of the thread-checked-lock crate: ThreadCheckedMutex, its guard,  *)
(* the per-thread registry of locked mutex IDs (LockedMutexesInner behind  *)
(* the LOCKED_MUTEXES thread local) and the std::sync::Mutex it wraps.     *)
(*                                                                         *)
(* Every call is one step, except lock(), which can block: it is LockCall  *)
(* (the registry check) followed by LockAcquire (the std Mutex is handed   *)
(* over).  try_lock() and the guard's drop touch shared state exactly once *)
(* (the std Mutex); everything else they do is local to the calling thread *)
(* and cannot be observed by another thread, so each is one step.          *)
(***************************************************************************)
EXTENDS Integers, Sequences, FiniteSets, TLC

\* ------------------------------------------------------------------ bounds
NumThreads == 2
NumMutexes == 2

\* the protected data T is a number in 0..MaxValue
MaxValue == 1

\* what a result carries (a guard, a T, a &mut T) is a number in 0..MaxPayload
MaxPayload == 7

\* width in bits of the ID counter (an AtomicU64 in the source: 64)
CounterBits == 3

\* the MutexIDs given to a registry used on its own are 1..NumIds
NumIds == 5

\* a registry used on its own has 0..MaxCapacity inline slots
MaxCapacity == 4

\* how often the lock-all / unlock-all cycle is run on one registry
MaxRounds == 2

\* how many critical sections each thread of the counting program runs
MaxSections == 2

\* locked_mutexes.rs: type Inner = LockedMutexesInner<4>
INLINE == 4

\* mutex_id.rs: const MAX_MUTEXES_PER_PROCESS: u64 = 1 << 63, half the range
\* of the counter
MAX_MUTEXES_PER_PROCESS == 2 ^ (CounterBits - 1)

Threads == 1..NumThreads
Mutexes == 1..NumMutexes
Values  == 0..MaxValue
Payloads == 0..MaxPayload
Ids     == 1..NumIds

\* Option<MutexID>::None in an inline slot (a MutexID is a NonZeroU64)
None == 0

\* ThreadCheckedMutex::new that gives every mutex the same ID
mutex_id_Same(m) == 1

\* mutex_id::next_id() hands out counter + 1, the counter starting at 0: the
\* k-th ThreadCheckedMutex::new of the process stores the ID k.
mutex_id(m) == m

VARIABLES
    LOCKED_MUTEXES,   \* thread -> [inline_ids, id_set]: the thread-local registry
    mutex_locked,     \* mutex -> BOOLEAN: the std Mutex is locked
    mutex_poisoned,   \* mutex -> BOOLEAN: the std Mutex's poison flag
    guards,           \* thread -> mutex -> number of ThreadCheckedMutexGuards
                      \*   created by the thread and not yet dropped
    forgotten,        \* thread -> set of mutexes whose guard was mem::forgot
    pc,               \* thread -> position inside the call in progress
    cur,              \* thread -> mutex of the call in progress (0 when idle)
    panicking,        \* thread -> BOOLEAN: the thread is unwinding
    assert_failed,    \* the debug_assert! in the guard's drop has failed
    try_register_failed, \* a register_locked inside try_lock returned false
    ret               \* the result of the last lock() or try_lock() that returned

\* the state of mutex_id::next_id
VARIABLES
    ID_COUNTER,       \* static ID_COUNTER: AtomicU64 inside next_counter
    id_pc,            \* thread -> position inside next_id: "idle", "assert"
    counter,          \* thread -> `let counter` of the next_id call in progress
    issued,           \* MutexID -> how often next_id has returned it (0, 1, 2 =
                      \*   twice or more)
    last_id,          \* thread -> the MutexID its last next_id call returned
                      \*   (0 before the first)
    exhausted,        \* the assertion of some next_id call has failed
    aborted           \* the process was terminated by a panic (panic = abort)

\* the protected data and the calls that reach it without locking
VARIABLES
    value,            \* mutex -> the T inside the std Mutex
    last_written,     \* mutex -> the value most recently written through a
                      \*   guard or a get_mut reference (at first the value
                      \*   given to ThreadCheckedMutex::new)
    alive,            \* mutex -> BOOLEAN: not yet consumed by into_inner
    acc               \* the last AccessResult returned: [res, val]

mutex_vars == <<LOCKED_MUTEXES, mutex_locked, mutex_poisoned, guards, forgotten,
                pc, cur, panicking, assert_failed, try_register_failed, ret>>

id_vars == <<ID_COUNTER, id_pc, counter, issued, last_id, exhausted, aborted>>

\* a call of HandlePoisonResult::ignore_poison / panic_if_poison
VARIABLES
    hp_ty,            \* the type of self: "lock" (LockResult), "try_lock"
                      \*   (TryLockResult), "access" (AccessResult)
    hp_op,            \* "ignore_poison", "panic_if_poison" ("none" at first)
    hp_in,            \* self
    hp_out            \* what the call returned, or Panicked

\* one LockedMutexesInner used on its own, as in the unit tests of
\* locked_mutexes_inner.rs
VARIABLES
    registry,         \* `let mut registry`: [inline_ids, id_set]
    last_call,        \* the last call on it and what it returned: [op, id, ret]
    test_pc,          \* position inside n_locks_n_unlocks: "idle", "lock",
                      \*   "unlock", "done"
    test_n,           \* ids.len(); the ids are 1..test_n
    test_i,           \* how many ids the running lock loop has registered
    test_todo,        \* the ids the running unlock loop has yet to unregister
    test_round,       \* lock-all / unlock-all cycles completed
    test_failed       \* an assert! of the test has failed

data_vars == <<value, last_written, alive, acc>>

hp_vars == <<hp_ty, hp_op, hp_in, hp_out>>

test_vars == <<test_pc, test_n, test_i, test_todo, test_round, test_failed>>

reg_vars == <<registry, last_call, test_vars>>

\* the calls of access_locked_mutexes in progress
VARIABLES
    access_depth,     \* thread -> how many calls of access_locked_mutexes are
                      \*   running on it (entered and not yet returned)
    access_site,      \* thread -> which call of a wrapper entered it: "lock",
                      \*   "try_check", "try_register", "drop", "drop_unwind",
                      \*   "query" ("none" outside)
    access_arg        \* thread -> the mutex of that call (0 outside)

access_vars == <<access_depth, access_site, access_arg>>

\* threads counting in the protected value
VARIABLES
    cs_pc,            \* thread -> "start", "acquiring", "locked", "read",
                      \*   "written"
    cs_local,         \* thread -> the value it read through its guard
    cs_done           \* thread -> mutex -> critical sections it has completed

cs_vars == <<cs_pc, cs_local, cs_done>>

\* what the lock operations leave alone
frame_vars == <<id_vars, data_vars, hp_vars, reg_vars, access_vars, cs_vars>>

vars == <<mutex_vars, id_vars, data_vars, hp_vars, reg_vars, access_vars,
          cs_vars>>

\* ------------------------------------------------- LockedMutexesInner<INLINE>

\* LockedMutexesInner::<n>::new
LockedMutexesInner_new_of(n) ==
    [inline_ids |-> [i \in 1..n |-> None], id_set |-> {}]

\* LockedMutexesInner::new for Inner = LockedMutexesInner<INLINE>
LockedMutexesInner_new == LockedMutexesInner_new_of(INLINE)

\* self.inline_ids.contains(&Some(mutex_id))
inline_contains(inner, id) ==
    \E i \in DOMAIN inner.inline_ids : inner.inline_ids[i] = id

\* the first slot for which id.is_none() holds, 0 when the array is full
first_none(inner) ==
    IF \E i \in DOMAIN inner.inline_ids : inner.inline_ids[i] = None
    THEN CHOOSE i \in DOMAIN inner.inline_ids :
            /\ inner.inline_ids[i] = None
            /\ \A j \in 1..(i - 1) : inner.inline_ids[j] # None
    ELSE 0

\* the first slot holding Some(id), 0 when there is none
first_slot_of(inner, id) ==
    IF inline_contains(inner, id)
    THEN CHOOSE i \in DOMAIN inner.inline_ids :
            /\ inner.inline_ids[i] = id
            /\ \A j \in 1..(i - 1) : inner.inline_ids[j] # id
    ELSE 0

\* register_locked without its first test, `inline_ids.contains(..)`
register_locked_NoInlineCheck(inner, id) ==
    IF first_none(inner) # 0
    THEN IF id \in inner.id_set
         THEN [ret |-> FALSE, inner |-> inner]
         ELSE [ret |-> TRUE,
               inner |-> [inner EXCEPT !.inline_ids[first_none(inner)] = id]]
    ELSE [ret |-> id \notin inner.id_set,
          inner |-> [inner EXCEPT !.id_set = @ \cup {id}]]

\* register_locked that reports every insertion into id_set as new: with the
\* inline slots full it returns true whatever HashSet::insert returned
register_locked_FullIsNew(inner, id) ==
    IF inline_contains(inner, id)
    THEN [ret |-> FALSE, inner |-> inner]
    ELSE IF first_none(inner) # 0
         THEN IF id \in inner.id_set
              THEN [ret |-> FALSE, inner |-> inner]
              ELSE [ret |-> TRUE,
                    inner |-> [inner EXCEPT !.inline_ids[first_none(inner)] = id]]
         ELSE [ret |-> TRUE,
               inner |-> [inner EXCEPT !.id_set = @ \cup {id}]]

\* register_locked that uses the first empty inline slot without looking into
\* id_set
register_locked_NoSetCheck(inner, id) ==
    IF inline_contains(inner, id)
    THEN [ret |-> FALSE, inner |-> inner]
    ELSE IF first_none(inner) # 0
         THEN [ret |-> TRUE,
               inner |-> [inner EXCEPT !.inline_ids[first_none(inner)] = id]]
         ELSE [ret |-> id \notin inner.id_set,
               inner |-> [inner EXCEPT !.id_set = @ \cup {id}]]

\* register_locked that moves an id found in id_set into the empty inline
\* slot and reports it as newly locked
register_locked_Promote(inner, id) ==
    IF inline_contains(inner, id)
    THEN [ret |-> FALSE, inner |-> inner]
    ELSE IF first_none(inner) # 0
         THEN [ret |-> TRUE,
               inner |-> [inner EXCEPT !.inline_ids[first_none(inner)] = id,
                                       !.id_set = @ \ {id}]]
         ELSE [ret |-> id \notin inner.id_set,
               inner |-> [inner EXCEPT !.id_set = @ \cup {id}]]

\* LockedMutexesInner::register_locked: [ret |-> the bool, inner |-> self after]
LockedMutexesInner_register_locked(inner, id) ==
    IF inline_contains(inner, id)
    THEN [ret |-> FALSE, inner |-> inner]
    ELSE IF first_none(inner) # 0
         THEN IF id \in inner.id_set
              THEN [ret |-> FALSE, inner |-> inner]
              ELSE [ret |-> TRUE,
                    inner |-> [inner EXCEPT !.inline_ids[first_none(inner)] = id]]
         ELSE [ret |-> id \notin inner.id_set,
               inner |-> [inner EXCEPT !.id_set = @ \cup {id}]]

\* register_unlocked that forgets the inline slots and only looks at id_set
register_unlocked_SetOnly(inner, id) ==
    [ret |-> id \in inner.id_set,
     inner |-> [inner EXCEPT !.id_set = @ \ {id}]]

\* register_unlocked that empties id_set whenever it clears an inline slot
register_unlocked_ClearsSet(inner, id) ==
    IF first_slot_of(inner, id) # 0
    THEN [ret |-> TRUE,
          inner |-> [inner EXCEPT !.inline_ids[first_slot_of(inner, id)] = None,
                                  !.id_set = {}]]
    ELSE [ret |-> id \in inner.id_set,
          inner |-> [inner EXCEPT !.id_set = @ \ {id}]]

\* register_unlocked that scans the inline slots and never reaches id_set
register_unlocked_InlineOnly(inner, id) ==
    IF first_slot_of(inner, id) # 0
    THEN [ret |-> TRUE,
          inner |-> [inner EXCEPT !.inline_ids[first_slot_of(inner, id)] = None]]
    ELSE [ret |-> FALSE, inner |-> inner]

\* LockedMutexesInner::register_unlocked: [ret |-> the bool, inner |-> self after]
LockedMutexesInner_register_unlocked(inner, id) ==
    IF first_slot_of(inner, id) # 0
    THEN [ret |-> TRUE,
          inner |-> [inner EXCEPT !.inline_ids[first_slot_of(inner, id)] = None]]
    ELSE [ret |-> id \in inner.id_set,
          inner |-> [inner EXCEPT !.id_set = @ \ {id}]]

\* locked_by_current_thread that looks at the inline slots only
locked_by_current_thread_InlineOnly(inner, id) ==
    inline_contains(inner, id)

\* LockedMutexesInner::locked_by_current_thread
LockedMutexesInner_locked_by_current_thread(inner, id) ==
    inline_contains(inner, id) \/ id \in inner.id_set

\* ---------------------------------------------- locked_mutexes (thread local)

\* locked_mutexes::register_locked on thread t: the bool and the registry after
register_locked(t, id) ==
    LockedMutexesInner_register_locked(LOCKED_MUTEXES[t], id)

\* locked_mutexes::register_unlocked on thread t
register_unlocked(t, id) ==
    LockedMutexesInner_register_unlocked(LOCKED_MUTEXES[t], id)

\* locked_by_current_thread on a registry shared by all threads (a static
\* in place of the thread_local!)
locked_by_current_thread_Shared(t, id) ==
    \E u \in Threads :
        LockedMutexesInner_locked_by_current_thread(LOCKED_MUTEXES[u], id)

\* locked_mutexes::locked_by_current_thread on thread t
locked_by_current_thread(t, id) ==
    LockedMutexesInner_locked_by_current_thread(LOCKED_MUTEXES[t], id)

\* ------------------------------------------------------ error.rs: results
\* A result is [kind, val]: Ok(val), Err(Poisoned(val)) (for an AccessResult,
\* Err(AccessError { poison: val })), or an error without payload.

NoPayload == 0 - 1

Ok(v) == [kind |-> "Ok", val |-> v]

Poisoned(v) == [kind |-> "Poisoned", val |-> v]

LockedByCurrentThread == [kind |-> "LockedByCurrentThread", val |-> NoPayload]

WouldBlock == [kind |-> "WouldBlock", val |-> NoPayload]

\* the call did not return: panic!
Panicked == [kind |-> "panic", val |-> NoPayload]

\* the values of LockResult<T>, TryLockResult<T>, AccessResult<T>
LockResult == {Ok(v) : v \in Payloads} \cup {Poisoned(v) : v \in Payloads}
                \cup {LockedByCurrentThread}

TryLockResult == LockResult \cup {WouldBlock}

AccessResults == {Ok(v) : v \in Payloads} \cup {Poisoned(v) : v \in Payloads}

\* LockError::ignore_poison
LockError_ignore_poison(e) ==
    IF e.kind = "Poisoned" THEN Ok(e.val) ELSE LockedByCurrentThread

\* <LockResult as HandlePoisonResult>::ignore_poison
LockResult_ignore_poison(r) ==
    IF r.kind = "Ok" THEN Ok(r.val) ELSE LockError_ignore_poison(r)

\* panic_if_poison that panics on every error, as unwrap() would
LockError_panic_if_poison_Unwrap(e) == Panicked

\* LockError::panic_if_poison
LockError_panic_if_poison(e) ==
    IF e.kind = "Poisoned" THEN Panicked ELSE LockedByCurrentThread

\* <LockResult as HandlePoisonResult>::panic_if_poison: map_err
LockResult_panic_if_poison(r) ==
    IF r.kind = "Ok" THEN r ELSE LockError_panic_if_poison(r)

\* ignore_poison with the two payload-less arms of the match swapped
TryLockError_ignore_poison_Swapped(e) ==
    CASE e.kind = "Poisoned"              -> Ok(e.val)
      [] e.kind = "LockedByCurrentThread" -> WouldBlock
      [] e.kind = "WouldBlock"            -> LockedByCurrentThread

\* TryLockError::ignore_poison
TryLockError_ignore_poison(e) ==
    CASE e.kind = "Poisoned"              -> Ok(e.val)
      [] e.kind = "LockedByCurrentThread" -> LockedByCurrentThread
      [] e.kind = "WouldBlock"            -> WouldBlock

\* <TryLockResult as HandlePoisonResult>::ignore_poison
TryLockResult_ignore_poison(r) ==
    IF r.kind = "Ok" THEN Ok(r.val) ELSE TryLockError_ignore_poison(r)

\* TryLockError::panic_if_poison
TryLockError_panic_if_poison(e) ==
    CASE e.kind = "Poisoned"              -> Panicked
      [] e.kind = "LockedByCurrentThread" -> LockedByCurrentThread
      [] e.kind = "WouldBlock"            -> WouldBlock

\* <TryLockResult as HandlePoisonResult>::panic_if_poison: map_err
TryLockResult_panic_if_poison(r) ==
    IF r.kind = "Ok" THEN r ELSE TryLockError_panic_if_poison(r)

\* AccessError::ignore_poison: Ok(self.poison.into_inner())
AccessError_ignore_poison(e) == Ok(e.val)

\* <AccessResult as HandlePoisonResult>::ignore_poison
AccessResult_ignore_poison(r) ==
    IF r.kind = "Ok" THEN Ok(r.val) ELSE AccessError_ignore_poison(r)

\* AccessError::panic_if_poison: panics unconditionally
AccessError_panic_if_poison(e) == Panicked

\* <AccessResult as HandlePoisonResult>::panic_if_poison: map_err
AccessResult_panic_if_poison(r) ==
    IF r.kind = "Ok" THEN r ELSE AccessError_panic_if_poison(r)

\* ------------------------------------------------------------------- helpers

\* Ok(guard) or Err(Poisoned(guard)), as the std Mutex reports it
GuardResult(poisoned) == IF poisoned THEN "Poisoned" ELSE "Ok"

\* the thread can start a call of its own choosing
Idle(t) == pc[t] = "idle" /\ ~panicking[t]

\* a guard of m that thread t can still drop
Droppable(t, m) == guards[t][m] > 0 /\ m \notin forgotten[t]

\* ---------------------------------------------------------------------- Init

Init ==
    /\ LOCKED_MUTEXES = [t \in Threads |-> LockedMutexesInner_new]
    /\ mutex_locked   = [m \in Mutexes |-> FALSE]
    /\ mutex_poisoned = [m \in Mutexes |-> FALSE]
    /\ guards         = [t \in Threads |-> [m \in Mutexes |-> 0]]
    /\ forgotten      = [t \in Threads |-> {}]
    /\ pc             = [t \in Threads |-> "idle"]
    /\ cur            = [t \in Threads |-> 0]
    /\ panicking      = [t \in Threads |-> FALSE]
    /\ assert_failed  = FALSE
    /\ try_register_failed = FALSE
    /\ ret            = "none"
    /\ ID_COUNTER     = 0
    /\ id_pc          = [t \in Threads |-> "idle"]
    /\ counter        = [t \in Threads |-> 0]
    /\ issued         = [id \in 1..MAX_MUTEXES_PER_PROCESS |-> 0]
    /\ exhausted      = FALSE
    /\ aborted        = FALSE
    /\ last_id        = [t \in Threads |-> 0]
    /\ access_depth   = [t \in Threads |-> 0]
    /\ access_site    = [t \in Threads |-> "none"]
    /\ access_arg     = [t \in Threads |-> 0]
    /\ cs_pc          = [t \in Threads |-> "start"]
    /\ cs_local       = [t \in Threads |-> 0]
    /\ cs_done        = [t \in Threads |-> [m \in Mutexes |-> 0]]
    /\ value          = [m \in Mutexes |-> 0]
    /\ last_written   = [m \in Mutexes |-> 0]
    /\ alive          = [m \in Mutexes |-> TRUE]
    /\ acc            = [res |-> "none", val |-> 0]
    /\ hp_ty          = "none"
    /\ hp_op          = "none"
    /\ hp_in          = [kind |-> "none", val |-> NoPayload]
    /\ hp_out         = [kind |-> "none", val |-> NoPayload]
    /\ registry       = LockedMutexesInner_new
    /\ last_call      = [op |-> "new", id |-> 0, ret |-> TRUE]
    /\ test_pc        = "idle"
    /\ test_n         = 0
    /\ test_i         = 0
    /\ test_todo      = {}
    /\ test_round     = 0
    /\ test_failed    = FALSE

\* ------------------------------------------------- ThreadCheckedMutex::lock

\* lock() whose failing path "cleans up" with register_unlocked
LockCall_UnregisterOnFail(t, m) ==
    /\ Idle(t)
    /\ LET r == register_locked(t, mutex_id(m)) IN
        IF r.ret
        THEN /\ LOCKED_MUTEXES' = [LOCKED_MUTEXES EXCEPT ![t] = r.inner]
             /\ pc'  = [pc EXCEPT ![t] = "lock_wait"]
             /\ cur' = [cur EXCEPT ![t] = m]
             /\ ret' = ret
        ELSE /\ LOCKED_MUTEXES' =
                   [LOCKED_MUTEXES EXCEPT
                       ![t] = register_unlocked(t, mutex_id(m)).inner]
             /\ ret' = "LockedByCurrentThread"
             /\ UNCHANGED <<pc, cur>>
    /\ UNCHANGED <<mutex_locked, mutex_poisoned, guards, forgotten,
                   panicking, assert_failed, try_register_failed>>

\* lock() that refuses, with LockedByCurrentThread, whenever the calling
\* thread has any mutex registered: a check that rules lock cycles out
LockCall_RefuseWhileHolding(t, m) ==
    /\ Idle(t)
    /\ LET r == register_locked(t, mutex_id(m)) IN
        IF r.ret /\ LOCKED_MUTEXES[t] = LockedMutexesInner_new
        THEN /\ LOCKED_MUTEXES' = [LOCKED_MUTEXES EXCEPT ![t] = r.inner]
             /\ pc'  = [pc EXCEPT ![t] = "lock_wait"]
             /\ cur' = [cur EXCEPT ![t] = m]
             /\ ret' = ret
        ELSE /\ ret' = "LockedByCurrentThread"
             /\ UNCHANGED <<LOCKED_MUTEXES, pc, cur>>
    /\ UNCHANGED <<mutex_locked, mutex_poisoned, guards, forgotten,
                   panicking, assert_failed, try_register_failed>>

\* lock(), up to the call of self.mutex.lock(): register_locked decides between
\* Err(LockedByCurrentThread) and going on to the std Mutex.
LockCall(t, m) ==
    /\ Idle(t)
    /\ LET r == register_locked(t, mutex_id(m)) IN
        /\ LOCKED_MUTEXES' = [LOCKED_MUTEXES EXCEPT ![t] = r.inner]
        /\ IF r.ret
           THEN /\ pc'  = [pc EXCEPT ![t] = "lock_wait"]
                /\ cur' = [cur EXCEPT ![t] = m]
                /\ ret' = ret
           ELSE /\ ret' = "LockedByCurrentThread"
                /\ UNCHANGED <<pc, cur>>
    /\ UNCHANGED <<mutex_locked, mutex_poisoned, guards, forgotten,
                   panicking, assert_failed, try_register_failed>>

\* lock() that does not wait for the std Mutex to be free
LockAcquire_NoWait(t, m) ==
    /\ pc[t] = "lock_wait" /\ cur[t] = m
    /\ mutex_locked' = [mutex_locked EXCEPT ![m] = TRUE]
    /\ guards' = [guards EXCEPT ![t][m] = @ + 1]
    /\ ret' = GuardResult(mutex_poisoned[m])
    /\ pc'  = [pc EXCEPT ![t] = "idle"]
    /\ cur' = [cur EXCEPT ![t] = 0]
    /\ UNCHANGED <<LOCKED_MUTEXES, mutex_poisoned, forgotten,
                   panicking, assert_failed, try_register_failed>>

\* lock() that unwraps the PoisonError and returns Ok(guard) in both arms
LockAcquire_IgnorePoison(t, m) ==
    /\ pc[t] = "lock_wait" /\ cur[t] = m
    /\ ~mutex_locked[m]
    /\ mutex_locked' = [mutex_locked EXCEPT ![m] = TRUE]
    /\ guards' = [guards EXCEPT ![t][m] = @ + 1]
    /\ ret' = "Ok"
    /\ pc'  = [pc EXCEPT ![t] = "idle"]
    /\ cur' = [cur EXCEPT ![t] = 0]
    /\ UNCHANGED <<LOCKED_MUTEXES, mutex_poisoned, forgotten,
                   panicking, assert_failed, try_register_failed>>

\* self.mutex.lock() returns: the std Mutex was free and is now locked by this
\* call; the MutexGuard is wrapped (new_guard / poisoned_guard) and returned.
LockAcquire(t, m) ==
    /\ pc[t] = "lock_wait" /\ cur[t] = m
    /\ ~mutex_locked[m]
    /\ mutex_locked' = [mutex_locked EXCEPT ![m] = TRUE]
    /\ guards' = [guards EXCEPT ![t][m] = @ + 1]
    /\ ret' = GuardResult(mutex_poisoned[m])
    /\ pc'  = [pc EXCEPT ![t] = "idle"]
    /\ cur' = [cur EXCEPT ![t] = 0]
    /\ UNCHANGED <<LOCKED_MUTEXES, mutex_poisoned, forgotten,
                   panicking, assert_failed, try_register_failed>>

\* --------------------------------------------- ThreadCheckedMutex::try_lock

\* try_lock() that takes the guard although the std Mutex is locked
TryLock_IgnoreWouldBlock(t, m) ==
    /\ Idle(t)
    /\ IF locked_by_current_thread(t, mutex_id(m))
       THEN /\ ret' = "LockedByCurrentThread"
            /\ UNCHANGED <<LOCKED_MUTEXES, mutex_locked, guards,
                           try_register_failed>>
       ELSE LET r == register_locked(t, mutex_id(m)) IN
            /\ mutex_locked' = [mutex_locked EXCEPT ![m] = TRUE]
            /\ LOCKED_MUTEXES' = [LOCKED_MUTEXES EXCEPT ![t] = r.inner]
            /\ try_register_failed' = (try_register_failed \/ ~r.ret)
            /\ guards' = [guards EXCEPT ![t][m] = @ + 1]
            /\ ret' = GuardResult(mutex_poisoned[m])
    /\ UNCHANGED <<mutex_poisoned, forgotten, pc, cur, panicking,
                   assert_failed>>

\* try_lock() that asks the std Mutex first and the registry afterwards
TryLock_UnderlyingFirst(t, m) ==
    /\ Idle(t)
    /\ IF mutex_locked[m]
       THEN /\ ret' = "WouldBlock"
            /\ UNCHANGED <<LOCKED_MUTEXES, mutex_locked, guards,
                           try_register_failed>>
       ELSE IF locked_by_current_thread(t, mutex_id(m))
       THEN /\ ret' = "LockedByCurrentThread"
            /\ UNCHANGED <<LOCKED_MUTEXES, mutex_locked, guards,
                           try_register_failed>>
       ELSE LET r == register_locked(t, mutex_id(m)) IN
            /\ mutex_locked' = [mutex_locked EXCEPT ![m] = TRUE]
            /\ LOCKED_MUTEXES' = [LOCKED_MUTEXES EXCEPT ![t] = r.inner]
            /\ try_register_failed' = (try_register_failed \/ ~r.ret)
            /\ guards' = [guards EXCEPT ![t][m] = @ + 1]
            /\ ret' = GuardResult(mutex_poisoned[m])
    /\ UNCHANGED <<mutex_poisoned, forgotten, pc, cur, panicking,
                   assert_failed>>

\* try_lock() that maps every Err of the std Mutex to WouldBlock: a poisoned
\* but free mutex is reported as WouldBlock (the MutexGuard inside the
\* PoisonError is dropped at once, so the std Mutex stays free)
TryLock_PoisonIsWouldBlock(t, m) ==
    /\ Idle(t)
    /\ IF locked_by_current_thread(t, mutex_id(m))
       THEN /\ ret' = "LockedByCurrentThread"
            /\ UNCHANGED <<LOCKED_MUTEXES, mutex_locked, guards,
                           try_register_failed>>
       ELSE IF mutex_locked[m] \/ mutex_poisoned[m]
       THEN /\ ret' = "WouldBlock"
            /\ UNCHANGED <<LOCKED_MUTEXES, mutex_locked, guards,
                           try_register_failed>>
       ELSE LET r == register_locked(t, mutex_id(m)) IN
            /\ mutex_locked' = [mutex_locked EXCEPT ![m] = TRUE]
            /\ LOCKED_MUTEXES' = [LOCKED_MUTEXES EXCEPT ![t] = r.inner]
            /\ try_register_failed' = (try_register_failed \/ ~r.ret)
            /\ guards' = [guards EXCEPT ![t][m] = @ + 1]
            /\ ret' = "Ok"
    /\ UNCHANGED <<mutex_poisoned, forgotten, pc, cur, panicking,
                   assert_failed>>

\* try_lock() that registers the id only in the Ok arm of the match, not in
\* the Err(StdTryLockError::Poisoned) arm
TryLock_NoRegisterOnPoison(t, m) ==
    /\ Idle(t)
    /\ IF locked_by_current_thread(t, mutex_id(m))
       THEN /\ ret' = "LockedByCurrentThread"
            /\ UNCHANGED <<LOCKED_MUTEXES, mutex_locked, guards,
                           try_register_failed>>
       ELSE IF mutex_locked[m]
       THEN /\ ret' = "WouldBlock"
            /\ UNCHANGED <<LOCKED_MUTEXES, mutex_locked, guards,
                           try_register_failed>>
       ELSE LET r == register_locked(t, mutex_id(m)) IN
            /\ mutex_locked' = [mutex_locked EXCEPT ![m] = TRUE]
            /\ IF mutex_poisoned[m]
               THEN UNCHANGED <<LOCKED_MUTEXES, try_register_failed>>
               ELSE /\ LOCKED_MUTEXES' = [LOCKED_MUTEXES EXCEPT ![t] = r.inner]
                    /\ try_register_failed' = (try_register_failed \/ ~r.ret)
            /\ guards' = [guards EXCEPT ![t][m] = @ + 1]
            /\ ret' = GuardResult(mutex_poisoned[m])
    /\ UNCHANGED <<mutex_poisoned, forgotten, pc, cur, panicking,
                   assert_failed>>

\* try_lock() that never calls register_locked
TryLock_NoRegister(t, m) ==
    /\ Idle(t)
    /\ IF locked_by_current_thread(t, mutex_id(m))
       THEN /\ ret' = "LockedByCurrentThread"
            /\ UNCHANGED <<mutex_locked, guards>>
       ELSE IF mutex_locked[m]
       THEN /\ ret' = "WouldBlock"
            /\ UNCHANGED <<mutex_locked, guards>>
       ELSE /\ mutex_locked' = [mutex_locked EXCEPT ![m] = TRUE]
            /\ guards' = [guards EXCEPT ![t][m] = @ + 1]
            /\ ret' = GuardResult(mutex_poisoned[m])
    /\ UNCHANGED <<LOCKED_MUTEXES, try_register_failed, mutex_poisoned,
                   forgotten, pc, cur, panicking, assert_failed>>

\* try_lock() that registers the id before it asks the std Mutex, as lock()
\* does, and leaves it registered when the std Mutex answers WouldBlock
TryLock_RegisterFirst(t, m) ==
    /\ Idle(t)
    /\ LET r == register_locked(t, mutex_id(m)) IN
       IF ~r.ret
       THEN /\ ret' = "LockedByCurrentThread"
            /\ UNCHANGED <<LOCKED_MUTEXES, mutex_locked, guards>>
       ELSE IF mutex_locked[m]
       THEN /\ ret' = "WouldBlock"
            /\ LOCKED_MUTEXES' = [LOCKED_MUTEXES EXCEPT ![t] = r.inner]
            /\ UNCHANGED <<mutex_locked, guards>>
       ELSE /\ mutex_locked' = [mutex_locked EXCEPT ![m] = TRUE]
            /\ LOCKED_MUTEXES' = [LOCKED_MUTEXES EXCEPT ![t] = r.inner]
            /\ guards' = [guards EXCEPT ![t][m] = @ + 1]
            /\ ret' = GuardResult(mutex_poisoned[m])
    /\ UNCHANGED <<mutex_poisoned, forgotten, pc, cur, panicking,
                   assert_failed, try_register_failed>>

\* try_lock().  Its only access to shared state is self.mutex.try_lock(); the
\* registry query before it and the register_locked after it are local to the
\* calling thread, so the call is one step.
\*   - locked_by_current_thread()      -> Err(LockedByCurrentThread)
\*   - std try_lock gives WouldBlock   -> Err(WouldBlock)
\*   - std try_lock gives the guard, clean or in a PoisonError: register_locked
\*     (result discarded), then Ok(guard) / Err(Poisoned(guard))
TryLock(t, m) ==
    /\ Idle(t)
    /\ IF locked_by_current_thread(t, mutex_id(m))
       THEN /\ ret' = "LockedByCurrentThread"
            /\ UNCHANGED <<LOCKED_MUTEXES, mutex_locked, guards,
                           try_register_failed>>
       ELSE IF mutex_locked[m]
       THEN /\ ret' = "WouldBlock"
            /\ UNCHANGED <<LOCKED_MUTEXES, mutex_locked, guards,
                           try_register_failed>>
       ELSE LET r == register_locked(t, mutex_id(m)) IN
            /\ mutex_locked' = [mutex_locked EXCEPT ![m] = TRUE]
            /\ LOCKED_MUTEXES' = [LOCKED_MUTEXES EXCEPT ![t] = r.inner]
            /\ try_register_failed' = (try_register_failed \/ ~r.ret)
            /\ guards' = [guards EXCEPT ![t][m] = @ + 1]
            /\ ret' = GuardResult(mutex_poisoned[m])
    /\ UNCHANGED <<mutex_poisoned, forgotten, pc, cur, panicking,
                   assert_failed>>

\* try_lock() in its three steps, for the order inside it.
\* A first step written like lock(): register_locked in place of the query
try_lock_check_RegisterFirst(t, m) ==
    /\ Idle(t)
    /\ LET r == register_locked(t, mutex_id(m)) IN
        /\ LOCKED_MUTEXES' = [LOCKED_MUTEXES EXCEPT ![t] = r.inner]
        /\ IF r.ret
           THEN /\ pc'  = [pc EXCEPT ![t] = "try_std"]
                /\ cur' = [cur EXCEPT ![t] = m]
                /\ ret' = ret
           ELSE /\ ret' = "LockedByCurrentThread"
                /\ UNCHANGED <<pc, cur>>
    /\ UNCHANGED <<mutex_locked, mutex_poisoned, guards, forgotten,
                   panicking, assert_failed, try_register_failed>>

\* First step: `if self.locked_by_current_thread()` returns
\* Err(LockedByCurrentThread), or the call goes on to self.mutex.try_lock()
try_lock_check(t, m) ==
    /\ Idle(t)
    /\ IF locked_by_current_thread(t, mutex_id(m))
       THEN /\ ret' = "LockedByCurrentThread"
            /\ UNCHANGED <<pc, cur>>
       ELSE /\ pc'  = [pc EXCEPT ![t] = "try_std"]
            /\ cur' = [cur EXCEPT ![t] = m]
            /\ ret' = ret
    /\ UNCHANGED <<LOCKED_MUTEXES, mutex_locked, mutex_poisoned, guards,
                   forgotten, panicking, assert_failed, try_register_failed>>

\* a second step that registers the id as soon as the std guard is obtained,
\* ahead of the third step's register_locked
try_lock_std_Registers(t, m) ==
    /\ pc[t] = "try_std" /\ cur[t] = m
    /\ IF mutex_locked[m]
       THEN /\ ret' = "WouldBlock"
            /\ pc'  = [pc EXCEPT ![t] = "idle"]
            /\ cur' = [cur EXCEPT ![t] = 0]
            /\ UNCHANGED <<mutex_locked, LOCKED_MUTEXES>>
       ELSE /\ mutex_locked' = [mutex_locked EXCEPT ![m] = TRUE]
            /\ LOCKED_MUTEXES' =
                  [LOCKED_MUTEXES EXCEPT
                      ![t] = register_locked(t, mutex_id(m)).inner]
            /\ pc' = [pc EXCEPT ![t] = IF mutex_poisoned[m]
                                       THEN "try_register_poisoned"
                                       ELSE "try_register"]
            /\ UNCHANGED <<cur, ret>>
    /\ UNCHANGED <<mutex_poisoned, guards, forgotten,
                   panicking, assert_failed, try_register_failed>>

\* Second step: self.mutex.try_lock().  Err(WouldBlock) is returned at once;
\* a MutexGuard, clean or inside a PoisonError, leads to register_locked.
try_lock_std(t, m) ==
    /\ pc[t] = "try_std" /\ cur[t] = m
    /\ IF mutex_locked[m]
       THEN /\ ret' = "WouldBlock"
            /\ pc'  = [pc EXCEPT ![t] = "idle"]
            /\ cur' = [cur EXCEPT ![t] = 0]
            /\ UNCHANGED mutex_locked
       ELSE /\ mutex_locked' = [mutex_locked EXCEPT ![m] = TRUE]
            /\ pc' = [pc EXCEPT ![t] = IF mutex_poisoned[m]
                                       THEN "try_register_poisoned"
                                       ELSE "try_register"]
            /\ UNCHANGED <<cur, ret>>
    /\ UNCHANGED <<LOCKED_MUTEXES, mutex_poisoned, guards, forgotten,
                   panicking, assert_failed, try_register_failed>>

\* Third step: `let _ = locked_mutexes::register_locked(self.mutex_id)` and the
\* return of Ok(new_guard) or Err(Poisoned(poisoned_guard))
try_lock_register(t, m) ==
    /\ pc[t] \in {"try_register", "try_register_poisoned"} /\ cur[t] = m
    /\ LET r == register_locked(t, mutex_id(m)) IN
        /\ LOCKED_MUTEXES' = [LOCKED_MUTEXES EXCEPT ![t] = r.inner]
        /\ try_register_failed' = (try_register_failed \/ ~r.ret)
    /\ guards' = [guards EXCEPT ![t][m] = @ + 1]
    /\ ret' = GuardResult(pc[t] = "try_register_poisoned")
    /\ pc'  = [pc EXCEPT ![t] = "idle"]
    /\ cur' = [cur EXCEPT ![t] = 0]
    /\ UNCHANGED <<mutex_locked, mutex_poisoned, forgotten, panicking,
                   assert_failed>>

\* ---------------------------------------- Drop for ThreadCheckedMutexGuard

\* a guard whose drop deregisters but never releases the std Mutex (the inner
\* MutexGuard is leaked)
DropGuard_KeepLocked(t, m, unwinding) ==
    /\ pc[t] = "idle"
    /\ Droppable(t, m)
    /\ LET r == register_unlocked(t, mutex_id(m)) IN
        /\ LOCKED_MUTEXES' = [LOCKED_MUTEXES EXCEPT ![t] = r.inner]
        /\ assert_failed' = (assert_failed \/ ~r.ret)
    /\ guards' = [guards EXCEPT ![t][m] = @ - 1]
    /\ UNCHANGED <<mutex_locked, mutex_poisoned, forgotten, pc, cur,
                   try_register_failed, ret>>

\* a guard whose drop releases the std Mutex and leaves the registry alone
DropGuard_NoDeregister(t, m, unwinding) ==
    /\ pc[t] = "idle"
    /\ Droppable(t, m)
    /\ mutex_locked'   = [mutex_locked EXCEPT ![m] = FALSE]
    /\ mutex_poisoned' = [mutex_poisoned EXCEPT ![m] = @ \/ unwinding]
    /\ guards' = [guards EXCEPT ![t][m] = @ - 1]
    /\ UNCHANGED <<LOCKED_MUTEXES, assert_failed, forgotten, pc, cur,
                   try_register_failed, ret>>

\* a guard whose drop unlocks every std Mutex, not only its own
DropGuard_UnlocksAll(t, m, unwinding) ==
    /\ pc[t] = "idle"
    /\ Droppable(t, m)
    /\ LET r == register_unlocked(t, mutex_id(m)) IN
        /\ LOCKED_MUTEXES' = [LOCKED_MUTEXES EXCEPT ![t] = r.inner]
        /\ assert_failed' = (assert_failed \/ ~r.ret)
    /\ mutex_locked'   = [n \in Mutexes |-> FALSE]
    /\ mutex_poisoned' = [mutex_poisoned EXCEPT ![m] = @ \/ unwinding]
    /\ guards' = [guards EXCEPT ![t][m] = @ - 1]
    /\ UNCHANGED <<forgotten, pc, cur, try_register_failed, ret>>

\* a guard whose drop skips register_unlocked while the thread is panicking
DropGuard_NoDeregisterOnUnwind(t, m, unwinding) ==
    /\ pc[t] = "idle"
    /\ Droppable(t, m)
    /\ LET r == register_unlocked(t, mutex_id(m)) IN
        IF unwinding
        THEN UNCHANGED <<LOCKED_MUTEXES, assert_failed>>
        ELSE /\ LOCKED_MUTEXES' = [LOCKED_MUTEXES EXCEPT ![t] = r.inner]
             /\ assert_failed' = (assert_failed \/ ~r.ret)
    /\ mutex_locked'   = [mutex_locked EXCEPT ![m] = FALSE]
    /\ mutex_poisoned' = [mutex_poisoned EXCEPT ![m] = @ \/ unwinding]
    /\ guards' = [guards EXCEPT ![t][m] = @ - 1]
    /\ UNCHANGED <<forgotten, pc, cur, try_register_failed, ret>>

\* A guard is dropped.  Drop::drop runs register_unlocked and the
\* debug_assert!; then the field `guard: MutexGuard` is dropped, which unlocks
\* the std Mutex and poisons it when the thread is unwinding from a panic.
\* Only the unlock touches shared state.
DropGuard(t, m, unwinding) ==
    /\ pc[t] = "idle"
    /\ Droppable(t, m)
    /\ LET r == register_unlocked(t, mutex_id(m)) IN
        /\ LOCKED_MUTEXES' = [LOCKED_MUTEXES EXCEPT ![t] = r.inner]
        /\ assert_failed' = (assert_failed \/ ~r.ret)
    /\ mutex_locked'   = [mutex_locked EXCEPT ![m] = FALSE]
    /\ mutex_poisoned' = [mutex_poisoned EXCEPT ![m] = @ \/ unwinding]
    /\ guards' = [guards EXCEPT ![t][m] = @ - 1]
    /\ UNCHANGED <<forgotten, pc, cur, try_register_failed, ret>>

\* the thread drops a guard of its own accord
Drop(t, m) ==
    /\ ~panicking[t]
    /\ DropGuard(t, m, FALSE)
    /\ UNCHANGED panicking

\* the thread panics while it holds guards, or is already unwinding, and the
\* unwinding drops the guard of m; when it was the last guard left to drop
\* the panic is over (caught by catch_unwind) and the thread goes on
Unwind(t, m) ==
    /\ DropGuard(t, m, TRUE)
    /\ panicking' = [panicking EXCEPT
                        ![t] = \E n \in Mutexes \ {m} : Droppable(t, n)]

\* The drop of a guard in its two steps, for the order inside it.
\* A drop whose first step releases the std Mutex and leaves the registry
\* alone (the inner MutexGuard dropped before Drop::drop's body runs)
Drop_drop_UnlockFirst(t, m, unwinding) ==
    /\ pc[t] = "idle"
    /\ Droppable(t, m)
    /\ unwinding \/ ~panicking[t]
    /\ mutex_locked'   = [mutex_locked EXCEPT ![m] = FALSE]
    /\ mutex_poisoned' = [mutex_poisoned EXCEPT ![m] = @ \/ unwinding]
    /\ pc'  = [pc EXCEPT ![t] = "drop_guard"]
    /\ cur' = [cur EXCEPT ![t] = m]
    /\ panicking' = [panicking EXCEPT ![t] = unwinding]
    /\ UNCHANGED <<LOCKED_MUTEXES, assert_failed, guards, forgotten,
                   try_register_failed, ret>>

\* First step, Drop::drop of ThreadCheckedMutexGuard: register_unlocked and
\* the debug_assert!.  The thread drops the guard of its own accord
\* (unwinding = FALSE), or panics, or is already unwinding, and the unwinding
\* drops it (unwinding = TRUE).
Drop_drop(t, m, unwinding) ==
    /\ pc[t] = "idle"
    /\ Droppable(t, m)
    /\ unwinding \/ ~panicking[t]
    /\ LET r == register_unlocked(t, mutex_id(m)) IN
        /\ LOCKED_MUTEXES' = [LOCKED_MUTEXES EXCEPT ![t] = r.inner]
        /\ assert_failed' = (assert_failed \/ ~r.ret)
    /\ pc'  = [pc EXCEPT ![t] = "drop_guard"]
    /\ cur' = [cur EXCEPT ![t] = m]
    /\ panicking' = [panicking EXCEPT ![t] = unwinding]
    /\ UNCHANGED <<mutex_locked, mutex_poisoned, guards, forgotten,
                   try_register_failed, ret>>

\* Second step: the field `guard: MutexGuard` is dropped, which unlocks the
\* std Mutex and poisons it when the thread is unwinding; the panic is over
\* when no guard is left to drop.
Drop_guard(t, m) ==
    /\ pc[t] = "drop_guard" /\ cur[t] = m
    /\ mutex_locked'   = [mutex_locked EXCEPT ![m] = FALSE]
    /\ mutex_poisoned' = [mutex_poisoned EXCEPT ![m] = @ \/ panicking[t]]
    /\ guards' = [guards EXCEPT ![t][m] = @ - 1]
    /\ pc'  = [pc EXCEPT ![t] = "idle"]
    /\ cur' = [cur EXCEPT ![t] = 0]
    /\ panicking' = [panicking EXCEPT
                        ![t] = /\ panicking[t]
                               /\ \E n \in Mutexes \ {m} : Droppable(t, n)]
    /\ UNCHANGED <<LOCKED_MUTEXES, forgotten, assert_failed,
                   try_register_failed, ret>>

\* a forget that runs the registry part of the guard's drop
Forget_Deregisters(t, m) ==
    /\ Idle(t)
    /\ Droppable(t, m)
    /\ forgotten' = [forgotten EXCEPT ![t] = @ \cup {m}]
    /\ LOCKED_MUTEXES' =
          [LOCKED_MUTEXES EXCEPT ![t] = register_unlocked(t, mutex_id(m)).inner]
    /\ UNCHANGED <<mutex_locked, mutex_poisoned, guards,
                   pc, cur, panicking, assert_failed, try_register_failed, ret>>

\* std::mem::forget(guard): the guard's drop never runs
Forget(t, m) ==
    /\ Idle(t)
    /\ Droppable(t, m)
    /\ forgotten' = [forgotten EXCEPT ![t] = @ \cup {m}]
    /\ UNCHANGED <<LOCKED_MUTEXES, mutex_locked, mutex_poisoned, guards,
                   pc, cur, panicking, assert_failed, try_register_failed, ret>>

\* ----------------------------------------------------- queries, clear_poison

\* ThreadCheckedMutex::locked_by_current_thread, called by thread t on mutex m
\* (a pure query: it changes no state)
ThreadCheckedMutex_locked_by_current_thread(t, m) ==
    locked_by_current_thread(t, mutex_id(m))

\* ThreadCheckedMutex::is_poisoned (a pure query)
is_poisoned(m) == mutex_poisoned[m]

\* clear_poison that does not reach the std Mutex
ClearPoison_Noop(t, m) ==
    /\ Idle(t)
    /\ UNCHANGED <<LOCKED_MUTEXES, mutex_locked, mutex_poisoned, guards,
                   forgotten, pc, cur, panicking, assert_failed,
                   try_register_failed, ret>>

\* clear_poison that also "resets" the caller's registry entry of the mutex
ClearPoison_Unregister(t, m) ==
    /\ Idle(t)
    /\ mutex_poisoned' = [mutex_poisoned EXCEPT ![m] = FALSE]
    /\ LOCKED_MUTEXES' =
          [LOCKED_MUTEXES EXCEPT ![t] = register_unlocked(t, mutex_id(m)).inner]
    /\ UNCHANGED <<mutex_locked, guards, forgotten,
                   pc, cur, panicking, assert_failed, try_register_failed, ret>>

\* ThreadCheckedMutex::clear_poison
ClearPoison(t, m) ==
    /\ Idle(t)
    /\ mutex_poisoned' = [mutex_poisoned EXCEPT ![m] = FALSE]
    /\ UNCHANGED <<LOCKED_MUTEXES, mutex_locked, guards, forgotten,
                   pc, cur, panicking, assert_failed, try_register_failed, ret>>

\* ------------------------------------ the protected data: guard, get_mut,
\* ------------------------------------ into_inner

\* AccessResult<T>: Ok(v), or Err(AccessError { poison }) with v inside, as
\* Mutex::into_inner / Mutex::get_mut and map_err(Into::into) produce it
AccessResult(poisoned, v) ==
    [res |-> IF poisoned THEN "Err" ELSE "Ok", val |-> v]

\* `self` / `&mut self` of mutex m can exist: no guard borrows the mutex (a
\* guard given to mem::forget borrows no longer) and no lock() call is inside it
Exclusive(m) ==
    \A u \in Threads :
        /\ ~Droppable(u, m)
        /\ ~(pc[u] = "lock_wait" /\ cur[u] = m)

\* DerefMut that hands out a reference to a copy: the write is lost
Write_ToCopy(t, m, w) ==
    /\ Idle(t)
    /\ Droppable(t, m)
    /\ last_written' = [last_written EXCEPT ![m] = w]
    /\ UNCHANGED <<mutex_vars, id_vars, hp_vars, reg_vars, access_vars, value, alive, acc>>

\* DerefMut for ThreadCheckedMutexGuard: the holder of a guard writes w
Write(t, m, w) ==
    /\ Idle(t)
    /\ Droppable(t, m)
    /\ value'        = [value EXCEPT ![m] = w]
    /\ last_written' = [last_written EXCEPT ![m] = w]
    /\ UNCHANGED <<mutex_vars, id_vars, hp_vars, reg_vars, access_vars, alive, acc>>

\* get_mut written with try_lock: it registers, locks and unlocks
GetMut_ViaTryLock(t, m, w) ==
    /\ Idle(t)
    /\ Exclusive(m)
    /\ IF locked_by_current_thread(t, mutex_id(m))
       THEN /\ acc' = [res |-> "LockedByCurrentThread", val |-> 0]
            /\ UNCHANGED <<value, last_written>>
       ELSE IF mutex_locked[m]
       THEN /\ acc' = [res |-> "WouldBlock", val |-> 0]
            /\ UNCHANGED <<value, last_written>>
       ELSE /\ acc' = AccessResult(mutex_poisoned[m], value[m])
            /\ value'        = [value EXCEPT ![m] = w]
            /\ last_written' = [last_written EXCEPT ![m] = w]
    /\ UNCHANGED <<mutex_vars, id_vars, hp_vars, reg_vars, access_vars, alive>>

\* ThreadCheckedMutex::get_mut: self.mutex.get_mut().map_err(Into::into).
\* The caller reads the value through the reference it gets (in Ok or inside
\* the error) and leaves w behind it.
GetMut(t, m, w) ==
    /\ Idle(t)
    /\ Exclusive(m)
    /\ acc' = AccessResult(mutex_poisoned[m], value[m])
    /\ value'        = [value EXCEPT ![m] = w]
    /\ last_written' = [last_written EXCEPT ![m] = w]
    /\ UNCHANGED <<mutex_vars, id_vars, hp_vars, reg_vars, access_vars, alive>>

\* into_inner that first "takes" the lock and records it in the registry
IntoInner_Registers(t, m) ==
    /\ Idle(t)
    /\ Exclusive(m)
    /\ acc' = AccessResult(mutex_poisoned[m], value[m])
    /\ alive' = [alive EXCEPT ![m] = FALSE]
    /\ LOCKED_MUTEXES' =
          [LOCKED_MUTEXES EXCEPT ![t] = register_locked(t, mutex_id(m)).inner]
    /\ UNCHANGED <<mutex_locked, mutex_poisoned, guards, forgotten, pc, cur,
                   panicking, assert_failed, try_register_failed, ret>>
    /\ UNCHANGED <<id_vars, hp_vars, reg_vars, access_vars, value, last_written>>

\* ThreadCheckedMutex::into_inner: self.mutex.into_inner().map_err(Into::into).
\* The mutex is consumed.
IntoInner(t, m) ==
    /\ Idle(t)
    /\ Exclusive(m)
    /\ acc' = AccessResult(mutex_poisoned[m], value[m])
    /\ alive' = [alive EXCEPT ![m] = FALSE]
    /\ UNCHANGED <<mutex_vars, id_vars, hp_vars, reg_vars, access_vars, value, last_written>>

\* ------------------------------------------------------- mutex_id::next_id

\* next_counter(): ID_COUNTER.fetch_add(1, Relaxed), one atomic step that
\* returns the old value and wraps around at 2^CounterBits
next_counter(t) ==
    /\ ~aborted
    /\ id_pc[t] = "idle"
    /\ counter' = [counter EXCEPT ![t] = ID_COUNTER]
    /\ ID_COUNTER' = (ID_COUNTER + 1) % (2 ^ CounterBits)
    /\ id_pc' = [id_pc EXCEPT ![t] = "assert"]
    /\ UNCHANGED <<issued, last_id, exhausted, aborted>>

\* next_id() after next_counter(), the assertion holding:
\* MutexID(NonZeroU64::new(counter + 1).unwrap()) is returned
next_id_return(t) ==
    /\ ~aborted
    /\ id_pc[t] = "assert"
    /\ counter[t] < MAX_MUTEXES_PER_PROCESS
    /\ issued' = [issued EXCEPT ![counter[t] + 1] = IF @ < 2 THEN @ + 1 ELSE 2]
    /\ last_id' = [last_id EXCEPT ![t] = counter[t] + 1]
    /\ id_pc' = [id_pc EXCEPT ![t] = "idle"]
    /\ UNCHANGED <<ID_COUNTER, counter, exhausted, aborted>>

\* next_id() after next_counter(), the assertion failing: assert! panics.
\* With panic = "abort" the process ends; with the default, panic = "unwind",
\* only the caller unwinds (to a catch_unwind, or to the end of its thread,
\* in whose place the model lets the thread go on) and the process lives.
next_id_panic(t, abort) ==
    /\ ~aborted
    /\ id_pc[t] = "assert"
    /\ counter[t] >= MAX_MUTEXES_PER_PROCESS
    /\ exhausted' = TRUE
    /\ aborted' = abort
    /\ id_pc' = [id_pc EXCEPT ![t] = "idle"]
    /\ UNCHANGED <<ID_COUNTER, counter, issued, last_id>>

\* ------------------------------------------------------ HandlePoisonResult

\* r.ignore_poison() on a LockResult, TryLockResult or AccessResult r
ignore_poison(ty, r) ==
    /\ hp_ty' = ty
    /\ hp_op' = "ignore_poison"
    /\ hp_in' = r
    /\ hp_out' = CASE ty = "lock"     -> LockResult_ignore_poison(r)
                   [] ty = "try_lock" -> TryLockResult_ignore_poison(r)
                   [] ty = "access"   -> AccessResult_ignore_poison(r)
    /\ UNCHANGED <<mutex_vars, id_vars, data_vars, reg_vars, access_vars,
                   cs_vars>>

\* r.panic_if_poison() on a LockResult, TryLockResult or AccessResult r
panic_if_poison(ty, r) ==
    /\ hp_ty' = ty
    /\ hp_op' = "panic_if_poison"
    /\ hp_in' = r
    /\ hp_out' = CASE ty = "lock"     -> LockResult_panic_if_poison(r)
                   [] ty = "try_lock" -> TryLockResult_panic_if_poison(r)
                   [] ty = "access"   -> AccessResult_panic_if_poison(r)
    /\ UNCHANGED <<mutex_vars, id_vars, data_vars, reg_vars, access_vars,
                   cs_vars>>

\* the results of type ty
ResultsOf(ty) ==
    CASE ty = "lock"     -> LockResult
      [] ty = "try_lock" -> TryLockResult
      [] ty = "access"   -> AccessResults

\* ------------------------------------- a LockedMutexesInner used on its own

\* what the calls on `registry` leave alone
reg_frame == <<mutex_vars, id_vars, data_vars, hp_vars, access_vars, cs_vars>>

\* let mut registry = LockedMutexesInner::<c>::new()
Registry_new(c) ==
    /\ test_pc = "idle"
    /\ registry'  = LockedMutexesInner_new_of(c)
    /\ last_call' = [op |-> "new", id |-> 0, ret |-> TRUE]
    /\ UNCHANGED test_vars

\* registry.register_locked(id)
Registry_register_locked(id) ==
    /\ test_pc = "idle"
    /\ LET r == LockedMutexesInner_register_locked(registry, id) IN
        /\ registry'  = r.inner
        /\ last_call' = [op |-> "register_locked", id |-> id, ret |-> r.ret]
    /\ UNCHANGED test_vars

\* registry.register_unlocked(id)
Registry_register_unlocked(id) ==
    /\ test_pc = "idle"
    /\ LET r == LockedMutexesInner_register_unlocked(registry, id) IN
        /\ registry'  = r.inner
        /\ last_call' = [op |-> "register_unlocked", id |-> id, ret |-> r.ret]
    /\ UNCHANGED test_vars

\* registry.locked_by_current_thread(id) (a pure query)
Registry_locked_by_current_thread(id) ==
    LockedMutexesInner_locked_by_current_thread(registry, id)

\* ------------------------------------------------- tests::n_locks_n_unlocks

\* n_locks_n_unlocks(ids) is entered with ids = [1, .., n]:
\* let mut registry = new_lmi()
n_locks_n_unlocks(n) ==
    /\ test_pc = "idle"
    /\ registry'   = LockedMutexesInner_new
    /\ last_call'  = [op |-> "new", id |-> 0, ret |-> TRUE]
    /\ test_pc'    = "lock"
    /\ test_n'     = n
    /\ test_i'     = 0
    /\ test_todo'  = {}
    /\ UNCHANGED <<test_round, test_failed>>

\* one pass of `for &id in ids { assert!(registry.register_locked(id));
\* assert!(registry.locked_by_current_thread(id)); }`; after the last id the
\* loop `for &id in ids { assert!(registry.locked_by_current_thread(id)); }`
test_lock ==
    /\ test_pc = "lock"
    /\ ~test_failed
    /\ LET id == test_i + 1
           r  == LockedMutexesInner_register_locked(registry, id)
           last == (id = test_n)
       IN
        /\ registry'  = r.inner
        /\ last_call' = [op |-> "register_locked", id |-> id, ret |-> r.ret]
        /\ test_failed' =
              \/ ~r.ret
              \/ ~LockedMutexesInner_locked_by_current_thread(r.inner, id)
              \/ /\ last
                 /\ \E j \in 1..test_n :
                       ~LockedMutexesInner_locked_by_current_thread(r.inner, j)
        /\ test_i'    = id
        /\ test_pc'   = IF last THEN "unlock" ELSE "lock"
        /\ test_todo' = IF last THEN 1..test_n ELSE {}
    /\ UNCHANGED <<test_n, test_round>>

\* one pass of `for &id in .. { assert!(registry.register_unlocked(id));
\* assert!(!registry.locked_by_current_thread(id)); }`, the ids taken in any
\* order (ids.iter().rev() in the first cycle of the source, ids in the
\* second); after the last id the loop
\* `for &id in ids { assert!(!registry.locked_by_current_thread(id)); }`
test_unlock(id) ==
    /\ test_pc = "unlock"
    /\ ~test_failed
    /\ id \in test_todo
    /\ LET r == LockedMutexesInner_register_unlocked(registry, id)
           last == (test_todo = {id})
       IN
        /\ registry'  = r.inner
        /\ last_call' = [op |-> "register_unlocked", id |-> id, ret |-> r.ret]
        /\ test_failed' =
              \/ ~r.ret
              \/ LockedMutexesInner_locked_by_current_thread(r.inner, id)
              \/ /\ last
                 /\ \E j \in 1..test_n :
                       LockedMutexesInner_locked_by_current_thread(r.inner, j)
        /\ test_todo'  = test_todo \ {id}
        /\ test_round' = IF last THEN test_round + 1 ELSE test_round
        /\ test_pc'    = IF ~last THEN "unlock"
                         ELSE IF test_round + 1 < MaxRounds THEN "lock"
                         ELSE "done"
        /\ test_i'     = IF last THEN 0 ELSE test_i
    /\ UNCHANGED test_n

\* ------------------------------------ locked_mutexes::access_locked_mutexes
\* Every wrapper (register_locked, register_unlocked, locked_by_current_thread)
\* is one call of access_locked_mutexes: the call is entered, the callback
\* runs the LockedMutexesInner method, the call returns.

\* the calls of the wrappers in mutex.rs
AccessSites ==
    {"lock", "try_check", "try_register", "drop", "drop_unwind", "query"}

\* thread t has reached the wrapper call of `site` for mutex m:
\*   "lock"          register_locked in lock()
\*   "try_check"     locked_by_current_thread in try_lock()
\*   "try_register"  register_locked in try_lock()
\*   "drop"          register_unlocked in a guard's drop
\*   "drop_unwind"   the same, the guard dropped by a panic's unwinding
\*   "query"         ThreadCheckedMutex::locked_by_current_thread
AtSite(t, site, m) ==
    CASE site = "lock"         -> Idle(t)
      [] site = "try_check"    -> Idle(t)
      [] site = "try_register" ->
            pc[t] \in {"try_register", "try_register_poisoned"} /\ cur[t] = m
      [] site = "drop"         ->
            pc[t] = "idle" /\ Droppable(t, m) /\ ~panicking[t]
      [] site = "drop_unwind"  -> pc[t] = "idle" /\ Droppable(t, m)
      [] site = "query"        -> Idle(t)

\* access_locked_mutexes is entered: LOCKED_MUTEXES.with(..) up to the call
\* f(locked_mutexes).  The thread is in lock(), try_lock(), a drop or the
\* query, not inside a callback.
access_locked_mutexes(t, site, m) ==
    /\ access_site[t] = "none"
    /\ AtSite(t, site, m)
    /\ access_depth' = [access_depth EXCEPT ![t] = @ + 1]
    /\ access_site'  = [access_site EXCEPT ![t] = site]
    /\ access_arg'   = [access_arg EXCEPT ![t] = m]
    /\ UNCHANGED mutex_vars

\* what the wrapper's caller does with the callback's result
site_step(t, site, m) ==
    CASE site = "lock"         -> LockCall(t, m)
      [] site = "try_check"    -> try_lock_check(t, m)
      [] site = "try_register" -> try_lock_register(t, m)
      [] site = "drop"         -> Drop_drop(t, m, FALSE)
      [] site = "drop_unwind"  -> Drop_drop(t, m, TRUE)
      [] site = "query"        -> UNCHANGED mutex_vars

\* a callback that calls a wrapper itself: access_locked_mutexes is entered
\* again before the outer call has returned
callback_Reentrant(t, m) ==
    /\ access_site[t] # "none" /\ access_arg[t] = m
    /\ access_depth' = [access_depth EXCEPT ![t] = @ + 1]
    /\ UNCHANGED <<access_site, access_arg>>
    /\ UNCHANGED mutex_vars

\* The callback runs and access_locked_mutexes returns: lm_inner's method
\* (register_locked, register_unlocked or locked_by_current_thread of
\* LockedMutexesInner, none of which calls into locked_mutexes) is applied to
\* the thread's registry, and the caller goes on with the bool.
callback(t, m) ==
    /\ access_site[t] # "none" /\ access_arg[t] = m
    /\ site_step(t, access_site[t], m)
    /\ access_depth' = [access_depth EXCEPT ![t] = @ - 1]
    /\ access_site'  = [access_site EXCEPT ![t] = "none"]
    /\ access_arg'   = [access_arg EXCEPT ![t] = 0]

\* a step of thread t outside the wrappers
Outside(t) == access_site[t] = "none"

\* ---------------------------------------------------------------------- Next

\* lock, try_lock, guard drops, panics that unwind through guards, and
\* clear_poison, by any thread on any mutex, in any interleaving
Next ==
    \E t \in Threads : \E m \in Mutexes :
        \/ LockCall(t, m)    /\ UNCHANGED frame_vars
        \/ LockAcquire(t, m) /\ UNCHANGED frame_vars
        \/ TryLock(t, m)     /\ UNCHANGED frame_vars
        \/ Drop(t, m)        /\ UNCHANGED frame_vars
        \/ Unwind(t, m)      /\ UNCHANGED frame_vars
        \/ ClearPoison(t, m) /\ UNCHANGED frame_vars

Spec == Init /\ [][Next]_vars

\* the same, with guards that may also be leaked by mem::forget
NextLeak ==
    \/ Next
    \/ /\ \E t \in Threads : \E m \in Mutexes : Forget(t, m)
       /\ UNCHANGED frame_vars

SpecLeak == Init /\ [][NextLeak]_vars

\* ------------------------------------------ threads incrementing a counter
\* Each thread repeats, MaxSections times: lock a mutex (lock(), or a
\* try_lock() repeated until it succeeds), read the value through the guard,
\* write the value read plus one through the guard, drop the guard.

\* what the lock operations of a critical section leave alone
cs_frame == <<id_vars, data_vars, hp_vars, reg_vars, access_vars>>

RECURSIVE SectionsOf(_, _)
\* the critical sections thread t has completed on the mutexes 1..n
SectionsOf(t, n) == IF n = 0 THEN 0 ELSE cs_done[t][n] + SectionsOf(t, n - 1)

\* the thread starts a critical section with lock()
cs_lock(t, m) ==
    /\ cs_pc[t] = "start"
    /\ SectionsOf(t, NumMutexes) < MaxSections
    /\ LockCall(t, m)
    /\ cs_pc' = [cs_pc EXCEPT ![t] = IF pc'[t] = "lock_wait"
                                     THEN "acquiring" ELSE "start"]
    /\ UNCHANGED <<cs_local, cs_done, cs_frame>>

\* the lock() of the critical section returns the guard
cs_acquire(t, m) ==
    /\ cs_pc[t] = "acquiring"
    /\ LockAcquire(t, m)
    /\ cs_pc' = [cs_pc EXCEPT ![t] = "locked"]
    /\ UNCHANGED <<cs_local, cs_done, cs_frame>>

\* the thread starts a critical section with try_lock(); without a guard it
\* is back at the start and will try again
cs_try_lock(t, m) ==
    /\ cs_pc[t] = "start"
    /\ SectionsOf(t, NumMutexes) < MaxSections
    /\ TryLock(t, m)
    /\ cs_pc' = [cs_pc EXCEPT ![t] = IF guards'[t][m] > guards[t][m]
                                     THEN "locked" ELSE "start"]
    /\ UNCHANGED <<cs_local, cs_done, cs_frame>>

\* let v = *guard (Deref)
cs_read(t, m) ==
    /\ cs_pc[t] = "locked"
    /\ Idle(t)
    /\ Droppable(t, m)
    /\ cs_local' = [cs_local EXCEPT ![t] = value[m]]
    /\ cs_pc'    = [cs_pc EXCEPT ![t] = "read"]
    /\ UNCHANGED <<mutex_vars, cs_done, cs_frame>>

\* *guard = v + 1 (DerefMut)
cs_write(t, m) ==
    /\ cs_pc[t] = "read"
    /\ Write(t, m, cs_local[t] + 1)
    /\ cs_pc' = [cs_pc EXCEPT ![t] = "written"]
    /\ UNCHANGED <<cs_local, cs_done>>

\* drop(guard): the critical section is complete
cs_drop(t, m) ==
    /\ cs_pc[t] = "written"
    /\ Drop(t, m)
    /\ cs_pc'   = [cs_pc EXCEPT ![t] = "start"]
    /\ cs_done' = [cs_done EXCEPT ![t][m] = @ + 1]
    /\ UNCHANGED <<cs_local, cs_frame>>

\* threads running critical sections on the mutexes, in any interleaving
NextCount ==
    \E t \in Threads : \E m \in Mutexes :
        \/ cs_lock(t, m)
        \/ cs_acquire(t, m)
        \/ cs_try_lock(t, m)
        \/ cs_read(t, m)
        \/ cs_write(t, m)
        \/ cs_drop(t, m)

SpecCount == Init /\ [][NextCount]_vars

\* what next_id leaves alone
id_frame == <<mutex_vars, data_vars, hp_vars, reg_vars, access_vars, cs_vars>>

\* threads calling next_id() (through ThreadCheckedMutex::new) concurrently
NextId ==
    \E t \in Threads :
        \/ next_counter(t)   /\ UNCHANGED id_frame
        \/ next_id_return(t) /\ UNCHANGED id_frame
        \/ \E abort \in BOOLEAN :
              next_id_panic(t, abort) /\ UNCHANGED id_frame

SpecId == Init /\ [][NextId]_vars

\* the lock operations, leaked guards, writes through guards, get_mut and
\* into_inner, by any thread on any mutex that has not been consumed
NextData ==
    \E t \in Threads : \E m \in Mutexes :
        \/ alive[m] /\ LockCall(t, m)    /\ UNCHANGED frame_vars
        \/ alive[m] /\ LockAcquire(t, m) /\ UNCHANGED frame_vars
        \/ alive[m] /\ TryLock(t, m)     /\ UNCHANGED frame_vars
        \/ alive[m] /\ Drop(t, m)        /\ UNCHANGED frame_vars
        \/ alive[m] /\ Unwind(t, m)      /\ UNCHANGED frame_vars
        \/ alive[m] /\ ClearPoison(t, m) /\ UNCHANGED frame_vars
        \/ alive[m] /\ Forget(t, m)      /\ UNCHANGED frame_vars
        \/ alive[m] /\ (\E w \in Values : Write(t, m, w))  /\ UNCHANGED cs_vars
        \/ alive[m] /\ (\E w \in Values : GetMut(t, m, w)) /\ UNCHANGED cs_vars
        \/ alive[m] /\ IntoInner(t, m)                     /\ UNCHANGED cs_vars

SpecData == Init /\ [][NextData]_vars

\* either handler applied to any result of any of the three result types
NextPoison ==
    \E ty \in {"lock", "try_lock", "access"} : \E r \in ResultsOf(ty) :
        \/ ignore_poison(ty, r)
        \/ panic_if_poison(ty, r)

SpecPoison == Init /\ [][NextPoison]_vars

\* any sequence of calls on one registry of any inline capacity 0..MaxCapacity
NextReg ==
    \/ \E c \in 0..MaxCapacity : Registry_new(c)   /\ UNCHANGED reg_frame
    \/ \E id \in Ids : Registry_register_locked(id)   /\ UNCHANGED reg_frame
    \/ \E id \in Ids : Registry_register_unlocked(id) /\ UNCHANGED reg_frame

SpecReg == Init /\ [][NextReg]_vars

\* n_locks_n_unlocks on 1 to NumIds ids
NextTest ==
    \/ \E n \in Ids : n_locks_n_unlocks(n) /\ UNCHANGED reg_frame
    \/ test_lock                           /\ UNCHANGED reg_frame
    \/ \E id \in Ids : test_unlock(id)     /\ UNCHANGED reg_frame

SpecTest == Init /\ [][NextTest]_vars

\* the lock operations with every guard drop in its two steps, so that other
\* threads run between the deregistration and the unlock
NextDrop ==
    \E t \in Threads : \E m \in Mutexes :
        \/ LockCall(t, m)    /\ UNCHANGED frame_vars
        \/ LockAcquire(t, m) /\ UNCHANGED frame_vars
        \/ TryLock(t, m)     /\ UNCHANGED frame_vars
        \/ \E unwinding \in BOOLEAN :
              Drop_drop(t, m, unwinding) /\ UNCHANGED frame_vars
        \/ Drop_guard(t, m)  /\ UNCHANGED frame_vars
        \/ ClearPoison(t, m) /\ UNCHANGED frame_vars

SpecDrop == Init /\ [][NextDrop]_vars

\* the lock operations with try_lock in its three steps, so that other
\* threads run between the query, the std try_lock and the registration
NextTry ==
    \E t \in Threads : \E m \in Mutexes :
        \/ LockCall(t, m)          /\ UNCHANGED frame_vars
        \/ LockAcquire(t, m)       /\ UNCHANGED frame_vars
        \/ try_lock_check(t, m)    /\ UNCHANGED frame_vars
        \/ try_lock_std(t, m)      /\ UNCHANGED frame_vars
        \/ try_lock_register(t, m) /\ UNCHANGED frame_vars
        \/ Drop(t, m)              /\ UNCHANGED frame_vars
        \/ Unwind(t, m)            /\ UNCHANGED frame_vars
        \/ ClearPoison(t, m)       /\ UNCHANGED frame_vars

SpecTry == Init /\ [][NextTry]_vars

\* what the steps of the wrappers' callers leave alone
access_frame == <<id_vars, data_vars, hp_vars, reg_vars, cs_vars>>

\* lock, try_lock and the guard's drop step by step, every registry access
\* going through access_locked_mutexes
NextAccess ==
    \E t \in Threads : \E m \in Mutexes :
        \/ \E site \in AccessSites :
              access_locked_mutexes(t, site, m) /\ UNCHANGED access_frame
        \/ callback(t, m)                     /\ UNCHANGED access_frame
        \/ Outside(t) /\ LockAcquire(t, m)    /\ UNCHANGED frame_vars
        \/ Outside(t) /\ try_lock_std(t, m)   /\ UNCHANGED frame_vars
        \/ Outside(t) /\ Drop_guard(t, m)     /\ UNCHANGED frame_vars
        \/ Outside(t) /\ ClearPoison(t, m)    /\ UNCHANGED frame_vars

SpecAccess == Init /\ [][NextAccess]_vars

\* The std Mutex hands the lock to a thread parked in lock(): a waiter that
\* finds the mutex free again and again is not passed over forever.
FairSpec ==
    Spec /\ \A t \in Threads : \A m \in Mutexes :
                SF_vars(LockAcquire(t, m) /\ UNCHANGED frame_vars)

\* ==================================================================== claims

\* number of guards of mutex m held by the threads 1..n
RECURSIVE SumGuards(_, _)
SumGuards(m, n) == IF n = 0 THEN 0 ELSE guards[n][m] + SumGuards(m, n - 1)

\* thread t is parked in self.mutex.lock() of mutex m
Waiting(t, m) == pc[t] = "lock_wait" /\ cur[t] = m

\* this step hands thread t a new guard of mutex m
Acquires(t, m) == guards'[t][m] > guards[t][m]

\* this step drops a guard of mutex m that thread t had
Releases(t, m) == guards'[t][m] < guards[t][m]

\* C1: mutual exclusion: in every reachable state every mutex has at most one
\* guard, counted over all threads (poison-wrapped guards included).
C1_MutualExclusion ==
    \A m \in Mutexes : SumGuards(m, NumThreads) <= 1

\* a guard exists while another thread is blocked in lock() on the same mutex
C1_Witness ==
    \E m \in Mutexes : \E t, u \in Threads :
        t # u /\ guards[t][m] = 1 /\ Waiting(u, m)

\* C2: lock() by a thread that holds a guard of the mutex returns
\* LockedByCurrentThread at once: the thread does not go on to the std Mutex,
\* and registry, std Mutex, guards and the drop assertion are as before.
C2_ReentrantLockFailsFast ==
    [][\A t \in Threads : \A m \in Mutexes :
          (guards[t][m] > 0 /\ LockCall(t, m)) =>
              /\ ret' = "LockedByCurrentThread"
              /\ pc'[t] = "idle"
              /\ UNCHANGED <<LOCKED_MUTEXES, mutex_locked, mutex_poisoned,
                             guards, panicking, assert_failed>>]_vars

\* a re-entrant lock() has just failed while the caller's guard is alive
C2_Witness ==
    /\ ret = "LockedByCurrentThread"
    /\ \E t \in Threads : \E m \in Mutexes :
          /\ guards[t][m] = 1 /\ pc[t] = "idle"
          /\ \A u \in Threads \ {t} : \A n \in Mutexes : guards[u][n] = 0

\* C3: try_lock() by a thread that holds a guard of the mutex returns
\* LockedByCurrentThread, never WouldBlock, and changes neither the registry
\* nor the std Mutex.
C3_ReentrantTryLock ==
    [][\A t \in Threads : \A m \in Mutexes :
          (guards[t][m] > 0 /\ TryLock(t, m)) =>
              /\ ret' = "LockedByCurrentThread"
              /\ UNCHANGED <<LOCKED_MUTEXES, mutex_locked, mutex_poisoned,
                             guards, pc>>]_vars

\* a re-entrant try_lock() has just failed while the std Mutex is locked
C3_Witness ==
    /\ ret = "LockedByCurrentThread"
    /\ \E t \in Threads : \E m \in Mutexes :
          /\ guards[t][m] = 1 /\ mutex_locked[m] /\ pc[t] = "idle"
          /\ \A u \in Threads \ {t} : \A n \in Mutexes : guards[u][n] = 0

\* C4: whenever a thread is between calls, locked_by_current_thread() on a
\* mutex is true exactly when a guard the thread obtained for it is alive.
C4_LockedIffGuardAlive ==
    \A t \in Threads : \A m \in Mutexes :
        pc[t] = "idle" =>
            (ThreadCheckedMutex_locked_by_current_thread(t, m)
                <=> guards[t][m] > 0)

\* a thread holds one mutex (query true) and not the other (query false)
\* right after a lock() of it succeeded
C4_Witness ==
    \E t \in Threads : \E m, n \in Mutexes :
        /\ pc[t] = "idle" /\ guards[t][m] = 1 /\ guards[t][n] = 0
        /\ ThreadCheckedMutex_locked_by_current_thread(t, m)
        /\ ~ThreadCheckedMutex_locked_by_current_thread(t, n)
        /\ ret = "Ok"

\* C5: lock() fails with LockedByCurrentThread exactly when a guard of the
\* mutex obtained by the caller is alive: with such a guard every lock() step
\* returns the error; without one no lock() step does anything but go on to
\* the std Mutex, returning nothing yet; and a thread parked there finds the
\* mutex free whenever no guard of it exists, so with nobody contending it
\* gets its guard.
C5_LockSucceedsIffNoGuard ==
    /\ [][\A t \in Threads : \A m \in Mutexes :
            (guards[t][m] > 0 /\ LockCall(t, m)) =>
                ret' = "LockedByCurrentThread" /\ pc'[t] = "idle"]_vars
    /\ [](\A t \in Threads : \A m \in Mutexes :
            /\ (Idle(t) /\ guards[t][m] = 0) =>
                  ~ENABLED (LockCall(t, m) /\ ~(Waiting(t, m)' /\ ret' = ret))
            /\ (Waiting(t, m) /\ SumGuards(m, NumThreads) = 0)
                  => ENABLED LockAcquire(t, m))

\* after a failed re-entrant lock() every guard has been dropped and a thread
\* is inside lock() again, past the registry check
C5_Witness ==
    /\ ret = "LockedByCurrentThread"
    /\ \A u \in Threads : \A n \in Mutexes : guards[u][n] = 0
    /\ \E t \in Threads : \E m \in Mutexes :
          /\ Waiting(t, m)
          /\ \A u \in Threads \ {t} : pc[u] = "idle"

\* C6: try_lock() by a thread holding no guard of the mutex returns
\* WouldBlock exactly when another thread holds a guard of it, and a guard
\* (Ok or Poisoned) when nobody does: from no state is there a try_lock() step
\* of such a thread that ends otherwise.  lock() never returns WouldBlock: a
\* lock() step that leaves WouldBlock in ret has not returned (the thread is
\* parked in the std Mutex and ret is an older result), and the step that
\* hands over the guard returns something else.
C6_WouldBlockIffHeldByOther ==
    /\ [](\A t \in Threads : \A m \in Mutexes :
            (Idle(t) /\ guards[t][m] = 0) =>
                ~ENABLED (/\ TryLock(t, m)
                          /\ ~(/\ (ret' = "WouldBlock")
                                    <=> (\E u \in Threads \ {t} : guards[u][m] > 0)
                               /\ (SumGuards(m, NumThreads) = 0) =>
                                     /\ ret' \in {"Ok", "Poisoned"}
                                     /\ guards'[t][m] = 1)))
    /\ [][\A t \in Threads : \A m \in Mutexes :
            /\ (ret' = "WouldBlock" /\ LockCall(t, m)) => Waiting(t, m)'
            /\ LockAcquire(t, m) => ret' # "WouldBlock"]_vars

\* a try_lock() has just returned WouldBlock while another thread holds the
\* only guard in existence
C6_Witness ==
    /\ ret = "WouldBlock"
    /\ \E t, u \in Threads : \E m \in Mutexes :
          /\ t # u /\ guards[u][m] = 1 /\ pc[t] = "idle"
          /\ \A n \in Mutexes : guards[t][n] = 0

\* C7: a thread blocked in lock() is handed its guard only in a state in
\* which no other thread has a guard of that mutex.
C7_LockReturnsAfterRelease ==
    [][\A t \in Threads : \A m \in Mutexes :
          (Waiting(t, m) /\ Acquires(t, m)) =>
              \A u \in Threads \ {t} : guards[u][m] = 0]_vars

\* a lock() has just returned Ok, its caller holds the guard, and another
\* thread is blocked in lock() on the same mutex
C7_Witness ==
    \E m \in Mutexes : \E t, u \in Threads :
        /\ t # u /\ guards[t][m] = 1 /\ guards[u][m] = 0 /\ Waiting(u, m)
        /\ ret = "Ok"

C9_PoisonedUntilCleared ==
    /\ [][\A t \in Threads : \A m \in Mutexes :
            /\ (Releases(t, m) /\ Unwind(t, m)) => mutex_poisoned'[m]
            /\ (mutex_poisoned[m] /\ Acquires(t, m)) =>
                  ret' = "Poisoned" /\ guards'[t][m] = 1 /\ mutex_locked'[m]
            /\ (mutex_poisoned[m] /\ (\A u \in Threads : guards[u][m] = 0)
                  /\ TryLock(t, m)) => Acquires(t, m)]_vars
    /\ [][\A m \in Mutexes :
            (mutex_poisoned[m] /\ ~mutex_poisoned'[m]) =>
                \E u \in Threads : ClearPoison(u, m)]_vars

\* a lock() on a poisoned mutex has just returned the guard inside Poisoned
C9_Witness ==
    /\ ret = "Poisoned"
    /\ \E t \in Threads : \E m \in Mutexes :
          mutex_poisoned[m] /\ guards[t][m] = 1 /\ ~panicking[t]

\* C10: any thread between calls can clear_poison a poisoned mutex, after
\* which is_poisoned() is false; an unpoisoned mutex is acquired with a plain
\* Ok guard, and it becomes poisoned again only when a panicking thread drops
\* a guard of it.
C10_ClearPoisonClears ==
    /\ [](\A t \in Threads : \A m \in Mutexes :
            (Idle(t) /\ is_poisoned(m))
                => ENABLED (ClearPoison(t, m) /\ ~is_poisoned(m)'))
    /\ [][\A t \in Threads : \A m \in Mutexes :
            /\ ClearPoison(t, m) => ~is_poisoned(m)'
            /\ (~mutex_poisoned[m] /\ Acquires(t, m)) => ret' = "Ok"
            /\ (~mutex_poisoned[m] /\ mutex_poisoned'[m]) =>
                  \E u \in Threads : Unwind(u, m)]_vars

\* the last acquisition found its mutex poisoned, since then the poison has
\* been cleared (no mutex is poisoned any more), every guard has been dropped
\* and a thread is inside lock() again
C10_Witness ==
    /\ ret = "Poisoned"
    /\ \A m \in Mutexes : ~is_poisoned(m)
    /\ \A t \in Threads : \A m \in Mutexes : guards[t][m] = 0
    /\ \E t \in Threads : \E m \in Mutexes : Waiting(t, m)

\* C11: a poisoned acquisition is a real acquisition.  The step that hands a
\* guard of a poisoned mutex to a thread returns Poisoned and leaves the
\* thread holding: one guard, the std Mutex locked, the id in its registry.
\* While that guard lives the mutex stays locked and registered and every
\* try_lock() of another thread returns WouldBlock; the step that drops the
\* guard leaves the mutex unlocked and the id out of the thread's registry.
C11_PoisonedAcquisitionHolds ==
    /\ [][\A t \in Threads : \A m \in Mutexes :
            /\ (mutex_poisoned[m] /\ Acquires(t, m)) =>
                  /\ ret' = "Poisoned"
                  /\ guards'[t][m] = 1 /\ mutex_locked'[m]
                  /\ ThreadCheckedMutex_locked_by_current_thread(t, m)'
            /\ Releases(t, m) =>
                  /\ guards'[t][m] = 0 /\ ~mutex_locked'[m]
                  /\ ~ThreadCheckedMutex_locked_by_current_thread(t, m)']_vars
    /\ [](\A t \in Threads : \A m \in Mutexes :
            (mutex_poisoned[m] /\ guards[t][m] > 0) =>
                /\ mutex_locked[m]
                /\ ThreadCheckedMutex_locked_by_current_thread(t, m)
                /\ \A u \in Threads \ {t} :
                      Idle(u) => ~ENABLED (TryLock(u, m) /\ ret' # "WouldBlock"))

\* a try_lock() has just returned WouldBlock while another thread holds the
\* guard it got from a mutex that was and still is poisoned
C11_Witness ==
    /\ ret = "WouldBlock"
    /\ \E t, u \in Threads : \E m \in Mutexes :
          /\ t # u /\ mutex_poisoned[m] /\ guards[t][m] = 1
          /\ Idle(t) /\ Idle(u)
          /\ \A n \in Mutexes : guards[u][n] = 0

\* C12: poison and re-entrancy are independent.  From no state, poisoned or
\* not, does a lock() or try_lock() by a thread that holds a guard of the
\* mutex end otherwise than with LockedByCurrentThread and poison flag,
\* registry and guards as they were; no step that changes a registry is a
\* clear_poison; and a step that changes the poison
\* flag of a mutex changes no registry membership other than that of the
\* guard whose drop, in that step, set the flag.
C12_PoisonIndependentOfReentrancy ==
    /\ [](\A t \in Threads : \A m \in Mutexes :
            (Idle(t) /\ guards[t][m] > 0) =>
                ~ENABLED (/\ LockCall(t, m) \/ TryLock(t, m)
                          /\ ~(/\ ret' = "LockedByCurrentThread"
                               /\ UNCHANGED <<mutex_poisoned, LOCKED_MUTEXES,
                                              guards>>)))
    /\ [][(LOCKED_MUTEXES' # LOCKED_MUTEXES) =>
            \A t \in Threads : \A m \in Mutexes : ~ClearPoison(t, m)]_vars
    /\ [][\A m \in Mutexes :
            (mutex_poisoned'[m] # mutex_poisoned[m]) =>
                \A t \in Threads : \A n \in Mutexes :
                    (locked_by_current_thread(t, mutex_id(n))'
                        # locked_by_current_thread(t, mutex_id(n)))
                      => (n = m /\ Releases(t, n))]_vars

\* a re-entrant attempt on a poisoned mutex has just failed: the caller holds
\* the guard, the mutex is poisoned, the result is LockedByCurrentThread
C12_Witness ==
    /\ ret = "LockedByCurrentThread"
    /\ \E t \in Threads : \E m \in Mutexes :
          /\ mutex_poisoned[m] /\ guards[t][m] = 1 /\ Idle(t)
          /\ ThreadCheckedMutex_locked_by_current_thread(t, m)
          /\ \A u \in Threads \ {t} : \A n \in Mutexes : guards[u][n] = 0

\* C13: next_id() never returns a value it has returned before, whatever the
\* number of calls and their interleaving: no identifier is issued twice.
C13_IdsNeverRepeat ==
    \A id \in 1..MAX_MUTEXES_PER_PROCESS : issued[id] <= 1

\* C14: identifier exhaustion is fatal and never wraps: a next_id() call that
\* starts after the assertion of some call has failed never gets a counter
\* value that passes the assertion, so it returns no identifier.
C14_ExhaustionIsFatal ==
    [][\A t \in Threads :
          (exhausted /\ next_counter(t)) =>
              counter'[t] >= MAX_MUTEXES_PER_PROCESS]_vars

\* this step is a get_mut() or an into_inner() of mutex m called by thread t
Accesses(t, m) == (\E w \in Values : GetMut(t, m, w)) \/ IntoInner(t, m)

\* C15: into_inner() and get_mut() never touch the reentrancy bookkeeping:
\* the step leaves every thread's registry as it was, creates no guard and
\* does not lock (or unlock) the std Mutex, nor does it block.
C15_AccessBypassesBookkeeping ==
    [][\A t \in Threads : \A m \in Mutexes :
          Accesses(t, m) =>
              UNCHANGED <<LOCKED_MUTEXES, guards, forgotten, mutex_locked,
                          mutex_poisoned, pc, cur>>]_vars

\* a mutex was consumed by into_inner while a leaked guard keeps its std
\* Mutex locked and its id in the registry of the thread that leaked it, and
\* another mutex is held by a live guard
C15_Witness ==
    /\ acc.res = "Ok"
    /\ \E t \in Threads : \E m, n \in Mutexes :
          /\ ~alive[m] /\ mutex_locked[m] /\ m \in forgotten[t]
          /\ locked_by_current_thread(t, mutex_id(m))
          /\ alive[n] /\ Droppable(t, n)

\* C16: into_inner() and get_mut() expose the latest written value: the value
\* in the result, Ok or poison error alike, is the one most recently written
\* through a guard of the mutex or an earlier get_mut.
C16_AccessYieldsLatestValue ==
    [][\A t \in Threads : \A m \in Mutexes :
          Accesses(t, m) => acc'.val = last_written[m]]_vars

\* into_inner has returned, inside a poison error, the value 1 that was
\* written through a guard of the mutex it consumed
C16_Witness ==
    /\ acc = [res |-> "Err", val |-> 1]
    /\ \E m \in Mutexes :
          /\ ~alive[m] /\ mutex_poisoned[m] /\ last_written[m] = 1
          /\ \A n \in Mutexes \ {m} : alive[n] /\ last_written[n] = 0

\* C17: into_inner() and get_mut() return an AccessError exactly when the
\* mutex is poisoned at the call, the error carrying the protected value;
\* every other call returns Ok with the value: no LockedByCurrentThread, no
\* WouldBlock, whether or not the std Mutex is locked or the caller's registry
\* holds the id (a leaked guard).
C17_AccessErrorIffPoisoned ==
    [][\A t \in Threads : \A m \in Mutexes :
          Accesses(t, m) =>
              /\ acc'.res \in {"Ok", "Err"}
              /\ (acc'.res = "Err") <=> is_poisoned(m)
              /\ acc'.val = value[m]]_vars

\* get_mut has returned Ok with the value 1 although the std Mutex of every
\* mutex is locked by a leaked guard; no mutex is poisoned or consumed
C17_Witness ==
    /\ acc = [res |-> "Ok", val |-> 1]
    /\ \A m \in Mutexes :
          /\ alive[m] /\ ~is_poisoned(m) /\ mutex_locked[m]
          /\ \E t \in Threads : m \in forgotten[t]

\* C18: ignore_poison turns a poison error into Ok with the payload that was
\* inside the error and returns every other result as it is: Ok(t) stays
\* Ok(t), LockedByCurrentThread and WouldBlock stay that error; the result is
\* never a poison error and, for an AccessResult, always Ok.
C18_IgnorePoison ==
    hp_op = "ignore_poison" =>
        /\ hp_in.kind = "Poisoned" => hp_out = [kind |-> "Ok", val |-> hp_in.val]
        /\ hp_in.kind # "Poisoned" => hp_out = hp_in
        /\ hp_out.kind \notin {"Poisoned", "panic"}
        /\ hp_ty = "access" => hp_out.kind = "Ok"

\* ignore_poison has turned a poisoned TryLockResult into Ok with its payload
C18_Witness ==
    /\ hp_op = "ignore_poison" /\ hp_ty = "try_lock"
    /\ hp_in = [kind |-> "Poisoned", val |-> MaxPayload]
    /\ hp_out = [kind |-> "Ok", val |-> MaxPayload]

\* C19: panic_if_poison panics exactly when the result is an error caused by
\* poison; Ok, LockedByCurrentThread and WouldBlock are returned unchanged;
\* for an AccessResult it panics exactly when the result is an Err.
C19_PanicIfPoison ==
    hp_op = "panic_if_poison" =>
        /\ (hp_out.kind = "panic") <=> (hp_in.kind = "Poisoned")
        /\ hp_in.kind # "Poisoned" => hp_out = hp_in
        /\ hp_ty = "access" => ((hp_out.kind = "panic") <=> (hp_in.kind # "Ok"))

\* panic_if_poison has returned LockedByCurrentThread of a LockResult as it was
C19_Witness ==
    /\ hp_op = "panic_if_poison" /\ hp_ty = "lock"
    /\ hp_in = [kind |-> "LockedByCurrentThread", val |-> NoPayload]
    /\ hp_out = hp_in

\* C20: registries are per thread and isolated: from no state is there a
\* lock(), try_lock(), guard drop or clear_poison of a thread that changes
\* the registry of another thread, and while a thread holds a guard of a mutex,
\* locked_by_current_thread() called by any other thread on that mutex
\* returns false.
C20_RegistriesIsolated ==
    /\ [](\A t \in Threads : \A m \in Mutexes :
            ~ENABLED (/\ \/ LockCall(t, m) \/ LockAcquire(t, m) \/ TryLock(t, m)
                         \/ Drop(t, m) \/ Unwind(t, m) \/ ClearPoison(t, m)
                      /\ \E u \in Threads \ {t} :
                            LOCKED_MUTEXES'[u] # LOCKED_MUTEXES[u]))
    /\ [](\A t \in Threads : \A u \in Threads \ {t} : \A m \in Mutexes :
            (guards[t][m] > 0 /\ pc[u] = "idle") =>
                ~ThreadCheckedMutex_locked_by_current_thread(u, m))

\* two threads hold one mutex each: each thread's query is true for its own
\* mutex and false for the other's
C20_Witness ==
    \E t, u \in Threads : \E m, n \in Mutexes :
        /\ t # u /\ m # n /\ Idle(t) /\ Idle(u)
        /\ guards[t][m] = 1 /\ guards[u][n] = 1
        /\ ThreadCheckedMutex_locked_by_current_thread(t, m)
        /\ ~ThreadCheckedMutex_locked_by_current_thread(u, m)
        /\ ThreadCheckedMutex_locked_by_current_thread(u, n)
        /\ ~ThreadCheckedMutex_locked_by_current_thread(t, n)

\* C21: distinct mutexes are independent on one thread.  While a thread holds
\* a guard of mutex a and none of mutex b, its lock() on b goes on to the std
\* Mutex and its try_lock() on b does not return LockedByCurrentThread; when
\* nobody holds b the acquisition succeeds (try_lock takes the guard, a lock()
\* that has reached the std Mutex can return).  A thread holding guards of
\* both can drop either first, the drop of one leaves the other registered
\* and locked, and once a thread holds no guard its registry has no ID left
\* and a mutex nobody holds is unlocked.
C21_DistinctMutexesIndependent ==
    /\ [](\A t \in Threads : \A a \in Mutexes : \A b \in Mutexes \ {a} :
            (guards[t][a] > 0 /\ guards[t][b] = 0) =>
                /\ ~ENABLED (LockCall(t, b) /\ pc'[t] # "lock_wait")
                /\ ~ENABLED (TryLock(t, b) /\ ret' = "LockedByCurrentThread")
                /\ ~mutex_locked[b] =>
                      /\ ~ENABLED (TryLock(t, b) /\ guards'[t][b] # 1)
                      /\ Waiting(t, b) => ENABLED LockAcquire(t, b))
    /\ [](\A t \in Threads : \A a \in Mutexes : \A b \in Mutexes \ {a} :
            (guards[t][a] > 0 /\ guards[t][b] > 0 /\ Idle(t)) =>
                /\ ENABLED Drop(t, a)
                /\ ~ENABLED (/\ Drop(t, a)
                             /\ ~(/\ locked_by_current_thread(t, mutex_id(b))'
                                  /\ ~locked_by_current_thread(t, mutex_id(a))'
                                  /\ mutex_locked'[b]
                                  /\ ~mutex_locked'[a])))
    /\ [](\A t \in Threads :
            (pc[t] = "idle" /\ \A m \in Mutexes : guards[t][m] = 0) =>
                LOCKED_MUTEXES[t] = LockedMutexesInner_new)
    /\ [](\A m \in Mutexes :
            (\A t \in Threads : guards[t][m] = 0) => ~mutex_locked[m])

\* a thread holds guards of two mutexes, the second one taken by an
\* acquisition that returned Ok while the first was held
C21_Witness ==
    \E t \in Threads : \E a \in Mutexes : \E b \in Mutexes \ {a} :
        /\ guards[t][a] > 0 /\ guards[t][b] > 0
        /\ locked_by_current_thread(t, mutex_id(a))
        /\ locked_by_current_thread(t, mutex_id(b))
        /\ ret = "Ok"

\* thread t holds a and is parked in lock() on b while thread u holds b and is
\* parked in lock() on a
CrossBlocked(t, u, a, b) ==
    /\ guards[t][a] > 0 /\ Waiting(t, b)
    /\ guards[u][b] > 0 /\ Waiting(u, a)

\* C22: only same-thread re-entry into the same lock is detected.  When thread
\* t holds a, thread u holds b, and each calls lock() on the other's mutex,
\* neither call returns LockedByCurrentThread: both go on to the std Mutex.
\* Once both are parked there neither lock() can return, and no step of the
\* program ever ends that state: the two threads are blocked forever.
C22_CrossLockCycleUndetected ==
    /\ [](\A t \in Threads : \A u \in Threads \ {t} :
          \A a \in Mutexes : \A b \in Mutexes \ {a} :
            (guards[t][a] > 0 /\ guards[u][b] > 0) =>
                ~ENABLED (LockCall(t, b) /\ pc'[t] # "lock_wait"))
    /\ [](\A t \in Threads : \A u \in Threads \ {t} :
          \A a \in Mutexes : \A b \in Mutexes \ {a} :
            CrossBlocked(t, u, a, b) =>
                /\ ~ENABLED LockAcquire(t, b)
                /\ ~ENABLED LockAcquire(u, a)
                /\ ~ENABLED (Next /\ ~CrossBlocked(t, u, a, b)'))

\* the deadlock is reached: thread 1 holds mutex 1 and waits for mutex 2,
\* thread 2 holds mutex 2 and waits for mutex 1
C22_Witness ==
    /\ CrossBlocked(1, 2, 1, 2)
    /\ ret # "LockedByCurrentThread"

\* the ids a registry records as held: those in its inline slots and those in
\* its overflow set
Recorded(inner) ==
    ({inner.inline_ids[i] : i \in DOMAIN inner.inline_ids} \ {None})
        \cup inner.id_set

\* in how many places (inline slots, the overflow set) a registry holds id
Places(inner, id) ==
    Cardinality({i \in DOMAIN inner.inline_ids : inner.inline_ids[i] = id})
        + (IF id \in inner.id_set THEN 1 ELSE 0)

\* C23: register_locked(id) returns true iff id was not recorded as held before
\* the call (neither in an inline slot nor in the overflow set); after a true
\* return id is recorded; a false return leaves inline slots and overflow set
\* as they were.  This holds for every call in every sequence of calls.
C23_RegisterLocked ==
    [][\A id \in Ids :
        (last_call'.id = id /\ Registry_register_locked(id)) =>
            /\ last_call'.ret
                  <=> ~LockedMutexesInner_locked_by_current_thread(registry, id)
            /\ last_call'.ret =>
                  LockedMutexesInner_locked_by_current_thread(registry', id)
            /\ ~last_call'.ret => registry' = registry]_vars

\* with all INLINE slots full, register_locked returned true for an id that
\* went to the overflow set, and then false for the same id
C23_Witness ==
    /\ DOMAIN registry.inline_ids = 1..INLINE
    /\ first_none(registry) = 0
    /\ last_call.op = "register_locked"
    /\ ~last_call.ret
    /\ last_call.id \in registry.id_set

\* C24: register_unlocked(id) returns true iff id was recorded as held before
\* the call, and then removes id and nothing else (every other inline slot and
\* the rest of the overflow set stay); when id was not recorded it returns
\* false and changes nothing.  After the call id is not recorded.
C24_RegisterUnlocked ==
    [][\A id \in Ids :
        (last_call'.id = id /\ Registry_register_unlocked(id)) =>
            /\ last_call'.ret
                  <=> LockedMutexesInner_locked_by_current_thread(registry, id)
            /\ last_call'.ret =>
                  /\ Recorded(registry') = Recorded(registry) \ {id}
                  /\ registry'.id_set = registry.id_set \ {id}
                  /\ \A i \in DOMAIN registry.inline_ids :
                        registry.inline_ids[i] # id =>
                            registry'.inline_ids[i] = registry.inline_ids[i]
            /\ ~last_call'.ret => registry' = registry
            /\ ~LockedMutexesInner_locked_by_current_thread(registry', id)]_vars

\* register_unlocked has returned true and all INLINE slots are still full:
\* the id was taken out of the overflow set and every inline id stayed
C24_Witness ==
    /\ DOMAIN registry.inline_ids = 1..INLINE
    /\ last_call.op = "register_unlocked"
    /\ last_call.ret
    /\ first_none(registry) = 0
    /\ registry.id_set = {}
    /\ last_call.id \notin Recorded(registry)

\* C25: representation invariant of the registry: after any sequence of
\* register_locked / register_unlocked calls every id is in at most one place:
\* at most one inline slot holds it, and it is never both in an inline slot
\* and in the overflow set.
C25_AtMostOnePlace ==
    \A id \in Ids : Places(registry, id) <= 1

\* a registry with an empty inline slot before an occupied one and a
\* non-empty overflow set: ids were registered beyond the inline capacity and
\* an inline id was unregistered and another registered since
C25_Witness ==
    /\ DOMAIN registry.inline_ids = 1..INLINE
    /\ registry.id_set # {}
    /\ registry.inline_ids[1] = None
    /\ registry.inline_ids[INLINE] # None
    /\ last_call.op = "register_locked"
    /\ ~last_call.ret

\* C26: n_locks_n_unlocks on n distinct ids, n below, at or above the inline
\* capacity: every register_locked and every register_unlocked returns true
\* and no assertion of the test fails; during the lock loop exactly the ids
\* registered so far report held, during the unlock loop (taken in any order)
\* exactly the ids not yet unregistered, and after a completed cycle the
\* registry is as new, reports no id held, and goes through the next cycle
\* in the same way.
C26_LockAllUnlockAll ==
    /\ ~test_failed
    /\ test_pc # "idle" =>
        /\ last_call.ret
        /\ test_pc = "lock" =>
              Recorded(registry) = 1..test_i
        /\ test_pc = "unlock" =>
              Recorded(registry) = test_todo
        /\ \A id \in Ids :
              LockedMutexesInner_locked_by_current_thread(registry, id)
                  <=> id \in Recorded(registry)
        /\ (test_pc = "done" \/ (test_pc = "lock" /\ test_i = 0)) =>
              registry = LockedMutexesInner_new

\* more ids than inline slots were registered and unregistered MaxRounds times
C26_Witness ==
    /\ test_pc = "done"
    /\ test_n > INLINE
    /\ test_round = MaxRounds
    /\ last_call = [op |-> "register_unlocked", id |-> 1, ret |-> TRUE]

\* C27: the registry refines a plain set, whatever its inline capacity
\* (0..MaxCapacity): with S the set of recorded ids, register_locked(id) returns
\* id \notin S and leaves S \cup {id}, register_unlocked(id) returns id \in S
\* and leaves S \ {id}, locked_by_current_thread(id) is id \in S, and a new
\* registry has S = {}.
C27_RefinesSet ==
    /\ [][/\ \A id \in Ids :
                (last_call'.id = id /\ Registry_register_locked(id)) =>
                    /\ last_call'.ret = (id \notin Recorded(registry))
                    /\ Recorded(registry') = Recorded(registry) \cup {id}
          /\ \A id \in Ids :
                (last_call'.id = id /\ Registry_register_unlocked(id)) =>
                    /\ last_call'.ret = (id \in Recorded(registry))
                    /\ Recorded(registry') = Recorded(registry) \ {id}
          /\ \A c \in 0..MaxCapacity :
                (last_call'.op = "new" /\ Registry_new(c)) => Recorded(registry') = {}]_vars
    /\ [](\A id \in Ids :
            Registry_locked_by_current_thread(id) = (id \in Recorded(registry)))

\* a registry without inline slots that records several ids after a
\* register_unlocked that returned true
C27_Witness ==
    /\ DOMAIN registry.inline_ids = {}
    /\ Cardinality(Recorded(registry)) >= 2
    /\ last_call.op = "register_unlocked"
    /\ last_call.ret

\* C28: register_locked(id) for an id that sits in the overflow set returns
\* false and changes nothing, also when an inline slot is empty: the overflow
\* set is consulted before the first empty slot is used.
C28_OverflowCheckedBeforeInline ==
    [][\A id \in Ids :
        (/\ last_call'.id = id
         /\ id \in registry.id_set
         /\ first_none(registry) # 0
         /\ Registry_register_locked(id)) =>
            /\ ~last_call'.ret
            /\ registry' = registry]_vars

\* register_locked has just returned false for an id of the overflow set
\* although an inline slot is empty
C28_Witness ==
    /\ DOMAIN registry.inline_ids = 1..INLINE
    /\ last_call.op = "register_locked"
    /\ ~last_call.ret
    /\ last_call.id \in registry.id_set
    /\ first_none(registry) # 0

\* C29: the assertion in ThreadCheckedMutexGuard::drop never fails.  Whatever
\* the sequence of acquisitions and drops, register_unlocked called for a
\* live guard's id on its thread's registry returns true, so no drop has ever
\* seen it return false.
C29_DropAssertionHolds ==
    /\ [](~assert_failed)
    /\ [](\A t \in Threads : \A m \in Mutexes :
            guards[t][m] > 0 => register_unlocked(t, mutex_id(m)).ret)
    /\ [](\A t \in Threads : \A m \in Mutexes :
            ~ENABLED ((Drop(t, m) \/ Unwind(t, m)) /\ assert_failed'))

\* guards have been dropped, one of them by a panicking thread (its mutex is
\* poisoned and free), while the thread holds another guard
C29_Witness ==
    \E t \in Threads : \E m \in Mutexes : \E n \in Mutexes \ {m} :
        /\ mutex_poisoned[m] /\ ~mutex_locked[m]
        /\ guards[t][n] > 0 /\ panicking[t]
        /\ ~assert_failed

\* thread t is inside the drop of its guard of m, between the two steps
Dropping(t, m) == pc[t] = "drop_guard" /\ cur[t] = m

\* C30: release order in the guard's drop.  Between the two steps of a drop
\* the id is already gone from the dropping thread's registry and the std
\* Mutex is still locked, so no other thread can take it: as long as a
\* thread's registry holds the id of a mutex it is not waiting for, the mutex
\* is locked and no other thread's lock() or try_lock() gets a guard.  A drop
\* that has deregistered can always go on to unlock, and when it ends the id
\* is deregistered and the mutex unlocked.
C30_DeregisterThenUnlock ==
    /\ [](\A t \in Threads : \A m \in Mutexes :
            Dropping(t, m) =>
                /\ ~locked_by_current_thread(t, mutex_id(m))
                /\ mutex_locked[m]
                /\ ENABLED Drop_guard(t, m))
    /\ [](\A t \in Threads : \A m \in Mutexes :
            (locked_by_current_thread(t, mutex_id(m)) /\ ~Waiting(t, m)) =>
                /\ mutex_locked[m]
                /\ \A u \in Threads \ {t} :
                      /\ ~ENABLED LockAcquire(u, m)
                      /\ ~ENABLED (TryLock(u, m) /\ guards'[u][m] > 0))
    /\ [](\A t \in Threads : \A m \in Mutexes :
            ~ENABLED (/\ Drop_guard(t, m)
                      /\ \/ mutex_locked'[m]
                         \/ locked_by_current_thread(t, mutex_id(m))'))

\* a thread is between the two steps of its drop while another thread is
\* parked in lock() on the same mutex
C30_Witness ==
    \E t \in Threads : \E u \in Threads \ {t} : \E m \in Mutexes :
        /\ Dropping(t, m)
        /\ Waiting(u, m)

\* thread t is inside try_lock() on m, the std Mutex acquired and the id not
\* yet registered
Registering(t, m) ==
    pc[t] \in {"try_register", "try_register_poisoned"} /\ cur[t] = m

\* C31: order inside try_lock().  The registry is consulted first: a thread
\* that holds the mutex never reaches self.mutex.try_lock(), and a thread that
\* has reached it has neither a guard of the mutex nor its id registered.
\* The id is registered only after the std Mutex was acquired: between the
\* acquisition (clean or poisoned) and the registration the mutex is locked
\* and the id is still absent, and the registration that follows records it
\* and hands out the guard.
C31_TryLockOrder ==
    /\ [](\A t \in Threads : \A m \in Mutexes :
            (pc[t] = "try_std" /\ cur[t] = m) =>
                /\ ~locked_by_current_thread(t, mutex_id(m))
                /\ guards[t][m] = 0)
    /\ [](\A t \in Threads : \A m \in Mutexes :
            guards[t][m] > 0 =>
                ~ENABLED (try_lock_check(t, m) /\ pc'[t] = "try_std"))
    /\ [](\A t \in Threads : \A m \in Mutexes :
            Registering(t, m) =>
                /\ mutex_locked[m]
                /\ ~locked_by_current_thread(t, mutex_id(m))
                /\ ~ENABLED (/\ try_lock_register(t, m)
                             /\ ~(/\ locked_by_current_thread(t, mutex_id(m))'
                                  /\ guards'[t][m] = 1
                                  /\ ret' \in {"Ok", "Poisoned"})))
    /\ [](\A t \in Threads : \A m \in Mutexes :
            (locked_by_current_thread(t, mutex_id(m)) /\ ~Waiting(t, m)) =>
                mutex_locked[m])

\* a thread has acquired a poisoned std Mutex in try_lock() and has not yet
\* registered the id, while another thread is parked in lock() on the mutex
C31_Witness ==
    \E t \in Threads : \E u \in Threads \ {t} : \E m \in Mutexes :
        /\ pc[t] = "try_register_poisoned" /\ cur[t] = m
        /\ Waiting(u, m)

\* C32: a try_lock() that fails with WouldBlock changes nothing: no try_lock()
\* returning WouldBlock changes a registry, the lock state or the holder of
\* any std Mutex, or a poison flag; and it does return WouldBlock, with all
\* that unchanged, whenever another thread holds the mutex.
C32_WouldBlockChangesNothing ==
    /\ [](\A t \in Threads : \A m \in Mutexes :
            ~ENABLED (/\ TryLock(t, m)
                      /\ ret' = "WouldBlock"
                      /\ \/ LOCKED_MUTEXES' # LOCKED_MUTEXES
                         \/ mutex_locked' # mutex_locked
                         \/ guards' # guards
                         \/ mutex_poisoned' # mutex_poisoned
                         \/ pc' # pc))
    /\ [](\A t \in Threads : \A u \in Threads \ {t} : \A m \in Mutexes :
            (Idle(t) /\ guards[u][m] > 0) =>
                ENABLED (/\ TryLock(t, m)
                         /\ ret' = "WouldBlock"
                         /\ LOCKED_MUTEXES' = LOCKED_MUTEXES))

\* try_lock() has returned WouldBlock to a thread that holds nothing and has
\* an empty registry, the mutex being held by another thread and poisoned
C32_Witness ==
    \E t \in Threads : \E u \in Threads \ {t} : \E m \in Mutexes :
        /\ ret = "WouldBlock"
        /\ guards[u][m] > 0 /\ mutex_poisoned[m]
        /\ Idle(t)
        /\ \A n \in Mutexes : guards[t][n] = 0
        /\ LOCKED_MUTEXES[t] = LockedMutexesInner_new

\* C33 as stated: in every reachable state the id of mutex m is in thread t's
\* registry if and only if t holds m (a guard created by t is alive), so the
\* id is in at most one thread's registry.
C33_RegistryIffHolds ==
    /\ \A t \in Threads : \A m \in Mutexes :
          locked_by_current_thread(t, mutex_id(m)) <=> guards[t][m] > 0
    /\ \A t \in Threads : \A u \in Threads \ {t} : \A m \in Mutexes :
          ~(/\ locked_by_current_thread(t, mutex_id(m))
            /\ locked_by_current_thread(u, mutex_id(m)))

\* C33, amended: the id of mutex m is in thread t's registry if and only if t
\* holds m (a guard created by t is alive) or t is inside lock() on m, parked
\* at the std Mutex, which lock() reaches after it has registered the id.
\* For a thread between calls the registry is exactly the set of mutexes it
\* holds, and among the threads not parked in lock() on m at most one has
\* m's id.
C33_RegistryIffHoldsOrWaits ==
    /\ \A t \in Threads : \A m \in Mutexes :
          locked_by_current_thread(t, mutex_id(m))
              <=> (guards[t][m] > 0 \/ Waiting(t, m))
    /\ \A t \in Threads : \A m \in Mutexes :
          pc[t] = "idle" =>
              (ThreadCheckedMutex_locked_by_current_thread(t, m)
                  <=> guards[t][m] = 1)
    /\ \A t \in Threads : \A u \in Threads \ {t} : \A m \in Mutexes :
          ~(/\ locked_by_current_thread(t, mutex_id(m)) /\ ~Waiting(t, m)
            /\ locked_by_current_thread(u, mutex_id(m)) /\ ~Waiting(u, m))

\* one thread holds m while another is parked in lock() on m: the id is in
\* both registries
C33_Witness ==
    \E t \in Threads : \E u \in Threads \ {t} : \E m \in Mutexes :
        /\ guards[t][m] = 1
        /\ Waiting(u, m) /\ guards[u][m] = 0
        /\ locked_by_current_thread(t, mutex_id(m))
        /\ locked_by_current_thread(u, mutex_id(m))

C35_IdsNonZeroIncreasing ==
    /\ [][\A t \in Threads :
            next_id_return(t) =>
                /\ last_id'[t] # 0
                /\ last_id'[t] = counter[t] + 1
                /\ last_id[t] # 0 => last_id'[t] > last_id[t]]_vars
    /\ [][\A t \in Threads :
            (/\ \A u \in Threads : id_pc[u] = "idle" /\ last_id[u] = 0
             /\ ~exhausted
             /\ next_counter(t)) => counter'[t] = 0]_vars
    /\ [](issued[1] <= 1)

\* C36: a guard dropped by a panic's unwinding still deregisters.  The step
\* in which the unwinding drops t's guard of m leaves m's id out of t's
\* registry, the std Mutex unlocked and poisoned.  When the panic is over, a
\* lock() of t on the poisoned, free mutex is not refused with
\* LockedByCurrentThread, and having reached the std Mutex it does not block:
\* it can return at once, with a guard wrapped in Poisoned.
C36_UnwindDeregisters ==
    /\ [](\A t \in Threads : \A m \in Mutexes :
            ~ENABLED (/\ Unwind(t, m)
                      /\ \/ locked_by_current_thread(t, mutex_id(m))'
                         \/ mutex_locked'[m]
                         \/ ~mutex_poisoned'[m]
                         \/ assert_failed'))
    /\ [](\A t \in Threads : \A m \in Mutexes :
            (Idle(t) /\ mutex_poisoned[m] /\ guards[t][m] = 0) =>
                /\ ~locked_by_current_thread(t, mutex_id(m))
                /\ ~ENABLED (LockCall(t, m) /\ pc'[t] # "lock_wait"))
    /\ [](\A t \in Threads : \A m \in Mutexes :
            (Waiting(t, m) /\ mutex_poisoned[m] /\ ~mutex_locked[m]) =>
                ENABLED (/\ LockAcquire(t, m)
                         /\ ret' = "Poisoned"
                         /\ guards'[t][m] = 1))

\* a thread holds a guard of a poisoned mutex again, given to it in a
\* Poisoned result, no other thread holding or waiting for anything: the
\* guard that poisoned the mutex was dropped by an unwinding
C36_Witness ==
    \E t \in Threads : \E m \in Mutexes :
        /\ ret = "Poisoned"
        /\ mutex_poisoned[m] /\ guards[t][m] = 1 /\ Idle(t)
        /\ \A u \in Threads \ {t} :
              /\ LOCKED_MUTEXES[u] = LockedMutexesInner_new
              /\ \A n \in Mutexes : guards[u][n] = 0

\* C37: a leaked guard keeps its mutex held for ever.  Once thread t has
\* leaked its guard of m, in every later state: the mutex is locked and t's
\* registry has its id (locked_by_current_thread() is true); t is never
\* parked inside lock() on m; every lock() and try_lock() of t on m returns
\* LockedByCurrentThread at once; every try_lock() of another thread returns
\* WouldBlock; and no step ends the leak.
C37_LeakedGuardHeldForever ==
    /\ [][\A t \in Threads : forgotten[t] \subseteq forgotten'[t]]_vars
    /\ [](\A t \in Threads : \A m \in forgotten[t] :
          /\ ThreadCheckedMutex_locked_by_current_thread(t, m)
          /\ mutex_locked[m]
          /\ ~Waiting(t, m)
          /\ ~ENABLED (LockCall(t, m) /\ pc'[t] = "lock_wait")
          /\ ~ENABLED (TryLock(t, m) /\ ret' # "LockedByCurrentThread")
          /\ Idle(t) => ENABLED (LockCall(t, m) /\ ret' = "LockedByCurrentThread")
          /\ Idle(t) => ENABLED TryLock(t, m)
          /\ \A u \in Threads \ {t} :
                /\ ~ENABLED (TryLock(u, m) /\ ret' # "WouldBlock")
                /\ ~ENABLED (LockAcquire(u, m)))

\* thread t leaked its guard of m, has called lock() or try_lock() on m again
\* and was refused, and is between calls; another thread waits inside lock()
\* for the leaked mutex
C37_Witness ==
    \E t \in Threads : \E m \in forgotten[t] :
        /\ ret = "LockedByCurrentThread"
        /\ Idle(t)
        /\ \A n \in Mutexes \ {m} : guards[t][n] = 0
        /\ \E u \in Threads \ {t} : Waiting(u, m)

RECURSIVE Sections(_, _)
\* the critical sections the threads 1..n have completed on mutex m
Sections(m, n) == IF n = 0 THEN 0 ELSE cs_done[n][m] + Sections(m, n - 1)

\* a thread has written its increment to m and not yet dropped the guard
Written(m) ==
    \E t \in Threads : cs_pc[t] = "written" /\ Droppable(t, m)

\* C38: no lost updates.  With the threads locking (lock(), or a try_lock()
\* that succeeded), reading the value through the guard, writing the value
\* plus one and dropping the guard, the value a thread read is still the
\* mutex's value when it writes, and the value of each mutex is the number of
\* critical sections completed on it, plus one while a thread has written and
\* not yet dropped; when every thread has finished, the value is the total
\* number of critical sections executed.
C38_NoLostUpdates ==
    /\ \A t \in Threads : \A m \in Mutexes :
          (cs_pc[t] = "read" /\ Droppable(t, m)) => cs_local[t] = value[m]
    /\ \A m \in Mutexes :
          value[m] = Sections(m, NumThreads) + (IF Written(m) THEN 1 ELSE 0)
    /\ (\A t \in Threads :
           cs_pc[t] = "start" /\ SectionsOf(t, NumMutexes) = MaxSections) =>
          \A m \in Mutexes : value[m] = Sections(m, NumThreads)

\* every thread has run all its critical sections, all on one mutex, whose
\* value is their total number
C38_Witness ==
    \E m \in Mutexes :
        /\ \A t \in Threads : cs_pc[t] = "start" /\ cs_done[t][m] = MaxSections
        /\ value[m] = NumThreads * MaxSections

\* thread t has obtained m's std guard inside try_lock() and is about to call
\* register_locked
AboutToRegister(t, m) ==
    pc[t] \in {"try_register", "try_register_poisoned"} /\ cur[t] = m

\* C39: inside try_lock(), whenever the underlying acquisition succeeded,
\* clean or poisoned, the register_locked that follows returns true: at that
\* point the thread's registry does not hold the id, no interleaving of the
\* other threads' calls changes that, and no execution has seen the call
\* return false.
C39_TryLockRegisterSucceeds ==
    /\ [](~try_register_failed)
    /\ [](\A t \in Threads : \A m \in Mutexes :
            AboutToRegister(t, m) =>
                /\ ~locked_by_current_thread(t, mutex_id(m))
                /\ register_locked(t, mutex_id(m)).ret
                /\ ENABLED try_lock_register(t, m)
                /\ ~ENABLED (try_lock_register(t, m) /\ try_register_failed'))

\* a try_lock() of thread t, which holds a guard of another mutex, has
\* obtained the std guard of a poisoned mutex and is about to call
\* register_locked, while another thread is inside try_lock() on the same
\* mutex, between its registry query and the std try_lock; no register_locked
\* of a try_lock has returned false
C39_Witness ==
    \E t \in Threads : \E m \in Mutexes :
        /\ AboutToRegister(t, m)
        /\ pc[t] = "try_register_poisoned"
        /\ mutex_locked[m] /\ guards[t][m] = 0
        /\ ~try_register_failed
        /\ \E n \in Mutexes \ {m} : guards[t][n] = 1
        /\ \A u \in Threads \ {t} : pc[u] = "try_std" /\ cur[u] = m

=============================================================================
